---- MODULE Spec2Model ----
(***************************************************************************)
(* A model of the randomgroups package (src/src/randomgroups): the history *)
(* matrix operations, the candidate generator, the scorer, the selector    *)
(* and the create_matching pipeline that strings them together.            *)
(*                                                                         *)
(* A pandas DataFrame holding a history matrix is a record                 *)
(*   [index |-> <<labels>>, values |-> <<rows>>]                           *)
(* whose labels name the rows and, in the same order, the columns.  A      *)
(* raised exception is a record [raised |-> "<exception>"].  Scores are    *)
(* exact rationals [num, den]; a penalty function is a table from counts   *)
(* to rationals.                                                           *)
(***************************************************************************)
EXTENDS Integers, Sequences, FiniteSets, TLC

\* ------------------------------------------------------------------------
\* Bounds of the model
\* ------------------------------------------------------------------------
MaxId == 3

MaxCount == 1

\* ------------------------------------------------------------------------
\* Sequences, labels and frames
\* ------------------------------------------------------------------------
Range(s) == {s[i] : i \in 1..Len(s)}

\* a bug that compares only neighbours, as is enough for sorted labels
is_unique_among_neighbours(s) == \A i \in 1..(Len(s) - 1) : s[i] # s[i + 1]

\* Index.is_unique
IsUnique(s) == \A i, j \in 1..Len(s) : s[i] = s[j] => i = j

RECURSIVE Flatten(_)
Flatten(ss) == IF ss = <<>> THEN <<>> ELSE Head(ss) \o Flatten(Tail(ss))

RECURSIVE SumSeq(_)
SumSeq(s) == IF s = <<>> THEN 0 ELSE Head(s) + SumSeq(Tail(s))

\* The first position of label a in an index (pandas looks a label up by value).
Pos(index, a) ==
    CHOOSE i \in 1..Len(index) :
        index[i] = a /\ \A j \in 1..(i - 1) : index[j] # a

IsFrame(df) == DOMAIN df = {"index", "values"}

Raise(what) == [raised |-> what]

\* df.loc[a, b]
Loc(df, a, b) == df.values[Pos(df.index, a)][Pos(df.index, b)]

\* df.loc[a, b] += 1
LocIncrement(df, a, b) ==
    [df EXCEPT !.values[Pos(df.index, a)][Pos(df.index, b)] = @ + 1]

\* np.zeros((n, n), dtype=int)
Zeros(n) == [i \in 1..n |-> [j \in 1..n |-> 0]]

\* group.index.values: the identities of a group's rows, in row order
GroupIds(group) == [i \in 1..Len(group) |-> group[i].id]

\* itertools.combinations(ids, 2): the pairs of positions i < j in lexicographic order
RECURSIVE combinations(_)
combinations(ids) ==
    IF Len(ids) < 2 THEN <<>>
    ELSE [j \in 1..(Len(ids) - 1) |-> <<ids[1], ids[j + 1]>>] \o combinations(Tail(ids))

\* ------------------------------------------------------------------------
\* update_matchings_history  (algorithm.py 105-127)
\* ------------------------------------------------------------------------
RECURSIVE AddCombinations(_, _)
RECURSIVE AddGroups(_, _)

\* a bug that forgets the symmetric entry (line 125)
AddCombinationsOneSided(df, combs) ==
    IF combs = <<>> THEN df
    ELSE AddCombinations(
             LocIncrement(df, Head(combs)[1], Head(combs)[2]),
             Tail(combs))

\* lines 124-125, for every comb of one group
AddCombinations(df, combs) ==
    IF combs = <<>> THEN df
    ELSE AddCombinations(
             LocIncrement(LocIncrement(df, Head(combs)[1], Head(combs)[2]),
                          Head(combs)[2], Head(combs)[1]),
             Tail(combs))

\* a bug that pairs every member with itself too (combinations with replacement)
AddGroupsWithSelf(df, matching) ==
    IF matching = <<>> THEN df
    ELSE AddGroups(
             AddCombinations(df,
                 combinations(GroupIds(Head(matching)))
                   \o [i \in 1..Len(Head(matching)) |->
                          <<Head(matching)[i].id, Head(matching)[i].id>>]),
             Tail(matching))

\* a bug that returns from inside the loop over the groups (line 127 indented)
AddGroupsReturnInLoop(df, matching) ==
    IF matching = <<>> THEN df
    ELSE AddCombinations(df, combinations(GroupIds(Head(matching))))

\* a bug that takes the pairs from the index of the frame, not of the group
AddGroupsOverIndex(df, matching) ==
    IF matching = <<>> THEN df
    ELSE AddGroups(AddCombinations(df, combinations(df.index)), Tail(matching))

\* lines 122-125
AddGroups(df, matching) ==
    IF matching = <<>> THEN df
    ELSE AddGroups(AddCombinations(df, combinations(GroupIds(Head(matching)))),
                   Tail(matching))

\* a bug that drops line 120's copy: the increments land in the caller's frame
update_matchings_history_inplace(matchings_history, matching) ==
    [updated_history |-> AddGroups(matchings_history, matching),
     matchings_history |-> AddGroups(matchings_history, matching)]

\* The call with its effect on the argument: the frame returned, and the caller's
\* frame as the call leaves it (line 120 works on a copy).
update_matchings_history_call(matchings_history, matching) ==
    [updated_history |-> AddGroups(matchings_history, matching),
     matchings_history |-> matchings_history]

update_matchings_history(matchings_history, matching) ==
    update_matchings_history_call(matchings_history, matching).updated_history

\* ------------------------------------------------------------------------
\* _add_new_individuals  (create_matching.py 231-262)
\* ------------------------------------------------------------------------
\* the set S as an ascending sequence
RECURSIVE Ascending(_)
Ascending(S) ==
    IF S = {} THEN <<>>
    ELSE LET m == CHOOSE x \in S : \A y \in S : x <= y
         IN <<m>> \o Ascending(S \ {m})

\* names["id"].values
NamesId(names) == [i \in 1..Len(names) |-> names[i].id]

\* a bug that lists every identity of ar1, those of ar2 included
setdiff1d_unique_only(ar1, ar2) == Ascending(Range(ar1))

\* np.setdiff1d(ar1, ar2): the sorted, unique values of ar1 that are not in ar2
setdiff1d(ar1, ar2) == Ascending(Range(ar1) \ Range(ar2))

\* lines 254-255: zeros with the old values in the top left block
Padded(values, n_old, n) ==
    [i \in 1..n |-> [j \in 1..n |->
        IF i <= n_old /\ j <= n_old THEN values[i][j] ELSE 0]]

\* lines 243-262.  pd.DataFrame(values, index=.., columns=..) raises ValueError
\* when the number of labels is not the number of rows.
add_new_individuals(matchings_history, names) ==
    LET matchings_history_id == matchings_history.index
        names_id == NamesId(names)
        new_ids == setdiff1d(names_id, matchings_history_id)
        n_new == Len(new_ids)
        n_old == Len(matchings_history.index)
    IN  IF n_new = 0 THEN matchings_history
        ELSE IF Len(names_id) # n_old + n_new THEN Raise("ValueError")
        ELSE [index |-> names_id,
              values |-> Padded(matchings_history.values, n_old, n_old + n_new)]

\* ------------------------------------------------------------------------
\* The random generator (np.random.default_rng, Generator.shuffle)
\* ------------------------------------------------------------------------
\* numpy's generator is not part of the package.  It is modelled as a state
\* machine of its own: a seed fixes the first state, every shuffle reads the
\* state and advances it, and the state read fixes the permutation.  The
\* states run through a full cycle of 24, so that every order of up to four
\* identities is drawn from some state.

\* np.random.default_rng(seed)  (create_matching.py 188)
default_rng(seed) == seed % 24

\* a bug that leaves the seed out (np.random.default_rng()): the generator
\* starts from what the operating system hands out
create_rng_unseeded(seed, entropy) == default_rng(entropy)

\* create_matching.py 188: rng = np.random.default_rng(seed); the entropy of the
\* operating system is at hand and not used
create_rng(seed, entropy) == default_rng(seed)

AdvanceRng(rng) == (13 * rng + 5) % 24

Without(s, i) == SubSeq(s, 1, i - 1) \o SubSeq(s, i + 1, Len(s))

\* the k-th order of the sequence s
RECURSIVE KthPermutation(_, _)
KthPermutation(s, k) ==
    IF s = <<>> THEN <<>>
    ELSE LET i == (k % Len(s)) + 1
         IN <<s[i]>> \o KthPermutation(Without(s, i), k \div Len(s))

\* rng.shuffle(ids): the shuffled array and the generator after the call
shuffle(ids, rng) == [ids |-> KthPermutation(ids, rng), rng |-> AdvanceRng(rng)]

\* ------------------------------------------------------------------------
\* draw_candidate_matchings  (algorithm.py 130-187)
\* ------------------------------------------------------------------------
IsRaised(r) == "raised" \in DOMAIN r

\* a bug that hands the items left over to the last pieces
array_split_extras_last(ary, sections) ==
    IF sections <= 0 THEN Raise("ValueError")
    ELSE LET each == Len(ary) \div sections
             extras == Len(ary) % sections
             first == sections - extras
             start(c) == (c - 1) * each + (IF c - 1 > first THEN c - 1 - first ELSE 0)
         IN [chunks |-> [c \in 1..sections |-> SubSeq(ary, start(c) + 1, start(c + 1))]]

\* np.array_split(ary, sections): sections <= 0 raises ValueError; otherwise the
\* first len % sections pieces hold len // sections + 1 items, the rest len // sections
array_split(ary, sections) ==
    IF sections <= 0 THEN Raise("ValueError")
    ELSE LET each == Len(ary) \div sections
             extras == Len(ary) % sections
             start(c) == (c - 1) * each + (IF c - 1 < extras THEN c - 1 ELSE extras)
         IN [chunks |-> [c \in 1..sections |-> SubSeq(ary, start(c) + 1, start(c + 1))]]

\* Python's floor division for a positive divisor
FloorDiv(a, b) == a \div b

\* a bug that rounds the number of chunks up
create_chunks_rounding_up(ids, min_size) ==
    IF min_size = 0 THEN Raise("ZeroDivisionError")
    ELSE array_split(ids, FloorDiv(Len(ids) + min_size - 1, min_size))

\* _create_chunks, lines 184-187: [chunks |-> ..] or the exception raised
create_chunks(ids, min_size) ==
    IF min_size = 0 THEN Raise("ZeroDivisionError")
    ELSE array_split(ids, FloorDiv(Len(ids), min_size))

\* participants.loc[chunk]: the rows of the identities of chunk, in chunk order
LocRows(participants, chunk) ==
    [k \in 1..Len(chunk) |-> participants[Pos(NamesId(participants), chunk[k])]]

\* _create_candidate_matching, lines 166-170: the matching (or the exception)
\* and the generator after the call
create_candidate_matching(participants, min_size, rng) ==
    LET shuffled == shuffle(NamesId(participants), rng)
        id_chunks == create_chunks(shuffled.ids, min_size)
    IN  IF IsRaised(id_chunks)
        THEN [raised |-> id_chunks.raised, rng |-> shuffled.rng]
        ELSE [matching |-> [c \in 1..Len(id_chunks.chunks) |->
                               LocRows(participants, id_chunks.chunks[c])],
              rng |-> shuffled.rng]

\* lines 145-149: the candidates drawn one after the other from the same
\* generator; the first exception ends the call
RECURSIVE DrawFrom(_, _, _, _, _)
DrawFrom(candidates, participants, min_size, n_draws, rng) ==
    IF Len(candidates) >= n_draws THEN [candidates |-> candidates, rng |-> rng]
    ELSE LET drawn == create_candidate_matching(participants, min_size, rng)
         IN IF IsRaised(drawn) THEN drawn
            ELSE DrawFrom(Append(candidates, drawn.matching), participants,
                          min_size, n_draws, drawn.rng)

\* a bug that puts every new candidate in front of the list
draw_candidate_matchings_newest_first(participants, min_size, n_draws, rng) ==
    LET drawn == DrawFrom(<<>>, participants, min_size, n_draws, rng)
    IN  IF IsRaised(drawn) THEN drawn
        ELSE [drawn EXCEPT !.candidates =
                 [d \in 1..Len(@) |-> drawn.candidates[Len(drawn.candidates) + 1 - d]]]

\* [candidates |-> .., rng |-> ..] or [raised |-> .., rng |-> ..]
draw_candidate_matchings(participants, min_size, n_draws, rng) ==
    DrawFrom(<<>>, participants, min_size, n_draws, rng)

\* ------------------------------------------------------------------------
\* Scores
\* ------------------------------------------------------------------------
\* A score is an exact rational [num, den] in lowest terms with den > 0.
Abs(x) == IF x < 0 THEN -x ELSE x

RECURSIVE Gcd(_, _)
Gcd(a, b) == IF b = 0 THEN a ELSE Gcd(b, a % b)

Rat(num, den) ==
    LET g == Gcd(Abs(num), den)
    IN  [num |-> num \div g, den |-> den \div g]

RatOf(n) == [num |-> n, den |-> 1]

RatAdd(x, y) == Rat(x.num * y.den + y.num * x.den, x.den * y.den)

RatTimes(n, x) == Rat(n * x.num, x.den)

RatLess(x, y) == x.num * y.den < y.num * x.den

RECURSIVE RatSum(_)
RatSum(s) == IF s = <<>> THEN RatOf(0) ELSE RatAdd(Head(s), RatSum(Tail(s)))

\* np.exp on the counts 0, 1, 2, ... in thousandths
ExpThousandths ==
    <<1000, 2718, 7389, 20086, 54598, 148413, 403429, 1096633, 2980958, 8103084>>

\* The penalty functions of the runs: np.exp (the default, create_matching.py 25),
\* lambda x: x (test_algorithm.py 42), lambda x: -np.exp(x)
\* (test_create_matching.py 47) and a constant function.
PenaltyFuncs == {"np.exp", "identity", "negative exp", "constant"}

\* penalty_func applied to one count
penalty_func(name, v) ==
    CASE name = "np.exp" -> Rat(ExpThousandths[v + 1], 1000)
      [] name = "identity" -> RatOf(v)
      [] name = "negative exp" -> Rat(-ExpThousandths[v + 1], 1000)
      [] name = "constant" -> RatOf(1)

\* ------------------------------------------------------------------------
\* _compute_history_score  (algorithm.py 45-69)
\* ------------------------------------------------------------------------
\* np.tril_indices(n, k=-1): the positions below the diagonal, row by row
RECURSIVE tril_indices(_)
tril_indices(n) ==
    IF n <= 1 THEN <<>>
    ELSE tril_indices(n - 1) \o [j \in 1..(n - 1) |-> <<n, j>>]

Max(S) == CHOOSE x \in S : \A y \in S : y <= x

\* np.bincount(x): the number of occurrences of 0, 1, .., max(x) in x
bincount(x) ==
    IF x = <<>> THEN <<>>
    ELSE [v \in 1..(Max(Range(x)) + 1) |-> Cardinality({i \in 1..Len(x) : x[i] = v - 1})]

\* the variant of src/randomgroups/algorithm.py 55-61: np.tril(values).flatten()
\* keeps the diagonal and counts a zero for every position above it
compute_history_score_flattened(matchings_history, penalty) ==
    LET values == matchings_history.values
        n == Len(values)
        tril == [k \in 1..(n * n) |->
                    LET i == ((k - 1) \div n) + 1
                        j == ((k - 1) % n) + 1
                    IN IF j <= i THEN values[i][j] ELSE 0]
        counts == bincount(tril)
    IN  RatSum([v \in 1..Len(counts) |-> RatTimes(counts[v], penalty_func(penalty, v - 1))])

\* lines 62-69
compute_history_score(matchings_history, penalty) ==
    LET values == matchings_history.values
        indices == tril_indices(Len(values))
        tril == [k \in 1..Len(indices) |-> values[indices[k][1]][indices[k][2]]]
        counts == bincount(tril)
    IN  RatSum([v \in 1..Len(counts) |-> RatTimes(counts[v], penalty_func(penalty, v - 1))])

\* ------------------------------------------------------------------------
\* _compute_assortativity_score  (algorithm.py 72-102)
\* ------------------------------------------------------------------------
\* A row of the participants table is a record [id, status, wants_mixing] whose
\* status field maps every status column of the table to the row's value in it;
\* NA is a missing value.
NA == "<NA>"

\* line 91: the columns of the first group with "status" in their name
statuses_columns(matching) == DOMAIN matching[1][1].status

\* a bug that leaves out dropna(): a missing value counts as one more status
unique_status_with_na(group, status) ==
    {group[m].status[status] : m \in 1..Len(group)}

\* line 96: group[status].dropna().unique()
unique_status(group, status) ==
    {group[m].status[status] : m \in 1..Len(group)} \ {NA}

\* Series.mean() of a sequence of integers
Mean(series) == Rat(SumSeq(series), Len(series))

\* lines 96-101 for one group and one status column: what is added to score
AssortativityOf(group, status, mixing_multiplier) ==
    LET n_unique_status == Cardinality(unique_status(group, status))
    IN  IF n_unique_status > 1
        THEN Mean([m \in 1..Len(group) |->
                      (1 - group[m].wants_mixing)
                        * (mixing_multiplier[status] * n_unique_status)])
        ELSE RatOf(0)

\* the sum of the rationals f[x] over the finite set S
RECURSIVE RatSumOver(_, _)
RatSumOver(S, f) ==
    IF S = {} THEN RatOf(0)
    ELSE LET x == CHOOSE y \in S : TRUE
         IN RatAdd(f[x], RatSumOver(S \ {x}, f))

\* lines 91-102
compute_assortativity_score(matching, mixing_multiplier) ==
    LET columns == statuses_columns(matching)
    IN  RatSum([g \in 1..Len(matching) |->
                   RatSumOver(columns,
                              [status \in columns |->
                                  AssortativityOf(matching[g], status, mixing_multiplier)])])

\* ------------------------------------------------------------------------
\* find_optimal_matching  (algorithm.py 8-42)
\* ------------------------------------------------------------------------
\* a bug that keeps the last of several minimal values
argmin_last(values) ==
    CHOOSE k \in 1..Len(values) :
        /\ \A j \in 1..Len(values) : ~RatLess(values[j], values[k])
        /\ \A j \in (k + 1)..Len(values) : RatLess(values[k], values[j])

\* a bug that takes the largest value (np.argmax)
argmax(values) ==
    CHOOSE k \in 1..Len(values) :
        /\ \A j \in 1..Len(values) : ~RatLess(values[k], values[j])
        /\ \A j \in 1..(k - 1) : RatLess(values[j], values[k])

\* np.argmin(values) for a non-empty list: the first position of the minimum
argmin(values) ==
    CHOOSE k \in 1..Len(values) :
        /\ \A j \in 1..Len(values) : ~RatLess(values[j], values[k])
        /\ \A j \in 1..(k - 1) : RatLess(values[k], values[j])

\* lines 35-38: one pass of the loop: the score of matching, and the caller's
\* history frame as the pass leaves it
ScoreOf(matching, matchings_history, penalty, mixing_multiplier, assortative_matching) ==
    LET updated == update_matchings_history_call(matchings_history, matching)
        history_score == compute_history_score(updated.updated_history, penalty)
    IN  [score |-> IF assortative_matching
                   THEN RatAdd(history_score,
                               compute_assortativity_score(matching, mixing_multiplier))
                   ELSE history_score,
         matchings_history |-> updated.matchings_history]

\* lines 33-42: [optimal_matching |-> ..], or the exception np.argmin raises on
\* an empty list
find_optimal_matching(candidates, matchings_history, penalty, mixing_multiplier, assortative_matching) ==
    LET criterion_values ==
            [k \in 1..Len(candidates) |->
                ScoreOf(candidates[k], matchings_history, penalty, mixing_multiplier,
                        assortative_matching).score]
    IN  IF candidates = <<>>
        THEN Raise("ValueError: attempt to get argmin of an empty sequence")
        ELSE [optimal_matching |-> candidates[argmin(criterion_values)]]

\* ------------------------------------------------------------------------
\* update_min_size_using_n_groups, get_number_of_excluded_participants
\* (algorithm.py 190-251)
\* ------------------------------------------------------------------------
\* Python's None for an optional integer argument
None == -1

\* a bug that also refuses a min_size equal to the derived size (>= at line 208)
update_min_size_refusing_equal(min_size, n_groups, n_participants) ==
    IF n_groups = 0 THEN Raise("ZeroDivisionError")
    ELSE LET updated_min_size == FloorDiv(n_participants, n_groups)
         IN IF min_size >= updated_min_size
            THEN Raise("ValueError: There are not enough participants")
            ELSE [min_size |-> updated_min_size]

\* lines 206-215: [min_size |-> ..] or the exception raised
update_min_size_using_n_groups(min_size, n_groups, n_participants) ==
    IF n_groups = 0 THEN Raise("ZeroDivisionError")
    ELSE LET updated_min_size == FloorDiv(n_participants, n_groups)
         IN IF min_size > updated_min_size
            THEN Raise("ValueError: There are not enough participants")
            ELSE [min_size |-> updated_min_size]

Max2(a, b) == IF a >= b THEN a ELSE b

\* a bug that leaves out the branch of equal sizes (lines 248-249)
get_number_of_excluded_without_equal_sizes(min_size, max_size, n_groups, n_participants) ==
    IF n_groups # None
    THEN LET n_to_exclude == Max2(0, n_participants - n_groups * max_size)
         IN [n_to_exclude |-> n_to_exclude, requires_consolidation |-> n_to_exclude > 0]
    ELSE [n_to_exclude |-> 0, requires_consolidation |-> FALSE]

\* a bug that leaves out the max(0, ..) of line 242
get_number_of_excluded_without_max(min_size, max_size, n_groups, n_participants) ==
    IF n_groups # None
    THEN LET n_to_exclude == n_participants - n_groups * max_size
         IN [n_to_exclude |-> n_to_exclude, requires_consolidation |-> n_to_exclude > 0]
    ELSE IF max_size = min_size
    THEN IF max_size = 0 THEN Raise("ZeroDivisionError")
         ELSE [n_to_exclude |-> n_participants % max_size, requires_consolidation |-> FALSE]
    ELSE [n_to_exclude |-> 0, requires_consolidation |-> FALSE]

\* lines 238-251: [n_to_exclude, requires_consolidation] or the exception raised
get_number_of_excluded_participants(min_size, max_size, n_groups, n_participants) ==
    IF n_groups # None
    THEN LET n_to_exclude == Max2(0, n_participants - n_groups * max_size)
         IN [n_to_exclude |-> n_to_exclude, requires_consolidation |-> n_to_exclude > 0]
    ELSE IF max_size = min_size
    THEN IF max_size = 0 THEN Raise("ZeroDivisionError")
         ELSE [n_to_exclude |-> n_participants % max_size, requires_consolidation |-> FALSE]
    ELSE [n_to_exclude |-> 0, requires_consolidation |-> FALSE]

\* a bug that checks the number of groups and keeps the caller's min_size
\* (the value returned at lines 147-151 dropped)
ConsolidateGroupSizesKeepingMinSize(min_size, n_groups, max_size, n_participants) ==
    LET first == IF n_groups # None
                 THEN update_min_size_using_n_groups(min_size, n_groups, n_participants)
                 ELSE [min_size |-> min_size]
    IN  IF IsRaised(first) THEN first
        ELSE IF max_size = None
        THEN [updated_min_size |-> min_size, n_to_exclude |-> 0]
        ELSE LET excluded == get_number_of_excluded_participants(
                                 min_size, max_size, n_groups, n_participants)
             IN IF IsRaised(excluded) THEN excluded
                ELSE [updated_min_size |-> min_size,
                      n_to_exclude |-> excluded.n_to_exclude]

\* create_matching.py 146-170: [updated_min_size, n_to_exclude] or the exception
ConsolidateGroupSizes(min_size, n_groups, max_size, n_participants) ==
    LET first == IF n_groups # None
                 THEN update_min_size_using_n_groups(min_size, n_groups, n_participants)
                 ELSE [min_size |-> min_size]
    IN  IF IsRaised(first) THEN first
        ELSE IF max_size = None
        THEN [updated_min_size |-> first.min_size, n_to_exclude |-> 0]
        ELSE LET excluded == get_number_of_excluded_participants(
                                 first.min_size, max_size, n_groups, n_participants)
             IN IF IsRaised(excluded) THEN excluded
                ELSE IF excluded.requires_consolidation
                THEN LET again == update_min_size_using_n_groups(
                                      min_size, n_groups,
                                      n_participants - excluded.n_to_exclude)
                     IN IF IsRaised(again) THEN again
                        ELSE [updated_min_size |-> again.min_size,
                              n_to_exclude |-> excluded.n_to_exclude]
                ELSE [updated_min_size |-> first.min_size,
                      n_to_exclude |-> excluded.n_to_exclude]

\* ------------------------------------------------------------------------
\* _exclude_participants_with_most_matchings  (create_matching.py 265-287)
\* ------------------------------------------------------------------------
\* matchings_history.sum(axis=0).loc[a]: the sum of the column labelled a
ColumnSum(matchings_history, a) ==
    SumSeq([i \in 1..Len(matchings_history.index) |->
               matchings_history.values[i][Pos(matchings_history.index, a)]])

\* the ranking by count, larger counts first and equal counts in listing order
RECURSIVE SortDescending(_, _)
SortDescending(ids, count) ==
    IF ids = <<>> THEN <<>>
    ELSE LET i == CHOOSE k \in 1..Len(ids) :
                      /\ \A j \in 1..Len(ids) : count[ids[j]] <= count[ids[k]]
                      /\ \A j \in 1..(k - 1) : count[ids[j]] < count[ids[k]]
         IN <<ids[i]>> \o SortDescending(Without(ids, i), count)

\* a sort that keeps equal counts in listing order (kind="stable")
sort_values_stable(ids, count) == {SortDescending(ids, count)}

\* line 284, matches.sort_values(ascending=False): the sort is numpy's
\* quicksort (the default kind), which fixes the order of different counts
\* only.  Where it leaves equal counts depends on the versions of numpy and
\* pandas and on the machine (setup.py asks for numpy >= 1.16, pandas >= 0.24),
\* so the model takes every order with larger counts first as one the sort may
\* give.
RECURSIVE SortedOrders(_, _)
SortedOrders(S, count) ==
    IF S = {} THEN {<<>>}
    ELSE UNION {{<<a>> \o rest : rest \in SortedOrders(S \ {a}, count)}
                : a \in {x \in S : \A y \in S : count[y] <= count[x]}}

sort_values(ids, count) == SortedOrders(Range(ids), count)

\* a bug that keeps the first n_to_exclude of the ranking (index[:n_to_exclude])
exclude_participants_keeping_the_first(participants, matchings_history, n_to_exclude) ==
    IF n_to_exclude > 0
    THEN LET ids == NamesId(participants)
             matches == [a \in Range(ids) |-> ColumnSum(matchings_history, a)]
         IN {LocRows(participants, SubSeq(sorted, 1, n_to_exclude))
                : sorted \in sort_values(ids, matches)}
    ELSE {participants}

\* lines 280-287: the tables the call may return, one for each order the sort
\* may give
exclude_participants_with_most_matchings(participants, matchings_history, n_to_exclude) ==
    IF n_to_exclude > 0
    THEN LET ids == NamesId(participants)
             matches == [a \in Range(ids) |-> ColumnSum(matchings_history, a)]
         IN {LocRows(participants, SubSeq(sorted, n_to_exclude + 1, Len(sorted)))
                : sorted \in sort_values(ids, matches)}
    ELSE {participants}

\* ------------------------------------------------------------------------
\* Files  (io.py 59-129, 175-197)
\* ------------------------------------------------------------------------
\* str(n): the decimal text of an integer, as to_csv and the f-strings write it
str(n) == ToString(n)

\* int(text): the integer a decimal text stands for, as read_csv(dtype=int) and
\* columns.astype(int) read it
int(text) == CHOOSE n \in 0..99 : ToString(n) = text

\* DataFrame.to_csv (io.py 109): a header line with an empty first cell and
\* the column labels, then a line per row with its label and its values.  A
\* file is the sequence of its lines, a line the sequence of its cells.
to_csv(frame) ==
    LET n == Len(frame.index)
    IN  <<<<"">> \o [j \in 1..n |-> str(frame.index[j])]>> \o
        [i \in 1..n |-> <<str(frame.index[i])>> \o [j \in 1..n |-> str(frame.values[i][j])]]

\* pd.read_csv(path, index_col=0, header=0, dtype=int) (io.py 79): the first
\* cell of every line after the header labels the row, the other cells are
\* its values
read_csv(lines) ==
    [index |-> [i \in 1..(Len(lines) - 1) |-> int(lines[i + 1][1])],
     values |-> [i \in 1..(Len(lines) - 1) |->
                    [j \in 1..(Len(lines[i + 1]) - 1) |-> int(lines[i + 1][j + 1])]]]

\* str.join
RECURSIVE join(_, _)
join(separator, texts) ==
    IF texts = <<>> THEN ""
    ELSE IF Len(texts) = 1 THEN texts[1]
    ELSE texts[1] \o separator \o join(separator, Tail(texts))

\* io.py 188-191: a line per group, numbered from 0, with the names of its members
RECURSIVE GroupLines(_, _)
GroupLines(matching, k) ==
    IF k = Len(matching) THEN ""
    ELSE "Group " \o str(k) \o ": "
         \o join(", ", [i \in 1..Len(matching[k + 1]) |-> matching[k + 1][i].name])
         \o "\n" \o GroupLines(matching, k + 1)

\* io.py 175-197.  excluded_participants is a set of str; listed is the order
\* in which this run of the interpreter iterates over it.
format_matching_as_str(matching, listed) ==
    IF Len(listed) > 0
    THEN GroupLines(matching, 0) \o "\n" \o "Excluded participants: " \o join(", ", listed)
    ELSE GroupLines(matching, 0)

\* a file name: its stem and its suffix
FileName(stem, suffix) == [stem |-> stem, suffix |-> suffix]

\* Path.with_suffix
with_suffix(name, suffix) == [name EXCEPT !.suffix = suffix]

\* the files of a directory: their contents by name; no file at first
NoFiles == [name \in {} |-> <<>>]

\* Path.is_file
is_file(files, name) == name \in DOMAIN files

\* what the user may enter at click.prompt (io.py 148-153): nothing, which is
\* the default, or another name
PromptAnswers(default) == {default, FileName("other", "")}

\* a bug that writes under the default name whatever was entered
file_path_taking_default(files, default, overwrite, answer) == default

\* io.py 101-107 and 121-127: the path written to
file_path(files, default, overwrite, answer) ==
    IF ~overwrite /\ is_file(files, default)
    THEN with_suffix(answer, default.suffix)
    ELSE default

\* to_csv and write_text: the directory with the file written
Written(files, name, content) == (name :> content) @@ files

\* ------------------------------------------------------------------------
\* Reading the inputs  (create_matching.py 97-140, io.py 59-82, 157-172)
\* ------------------------------------------------------------------------
\* names.query("joins == 1").set_index("id")
Joining(names) == SelectSeq(names, LAMBDA row : row.joins = 1)

\* io.py 76-82: the frame read from the file, or zeros over the listed
\* identities when no path is given
read_or_create_matchings_history(names, file) ==
    IF "lines" \in DOMAIN file THEN read_csv(file.lines)
    ELSE [index |-> NamesId(names), values |-> Zeros(Len(names))]

\* create_matching.py 109: the status columns of the names table
NamesStatusColumns(names) == IF names = <<>> THEN {} ELSE DOMAIN names[1].status

\* create_matching.py 117-125: the multiplier as a dict over the status columns,
\* or the exception raised
MultiplierDict(mixing_multiplier, columns) ==
    IF "float" \in DOMAIN mixing_multiplier
    THEN [dict |-> [status \in columns |-> mixing_multiplier.float]]
    ELSE IF DOMAIN mixing_multiplier.dict # columns
    THEN Raise("ValueError: 'mixing_multiplier' must be a float or a dict")
    ELSE mixing_multiplier

\* ------------------------------------------------------------------------
\* State
\* ------------------------------------------------------------------------
VARIABLES
    call,               \* a single call of one function of the package: its
                        \* arguments and its result
    pc,                 \* where a run of create_matching stands
    args,               \* the arguments of the run and the files it reads
    all_participants,   \* create_matching's locals, as in the source
    mixing_multiplier,
    matchings_history,
    updated_min_size,
    n_to_exclude,
    participants,
    list_of_matchings,
    criterion_values,   \* find_optimal_matching's local
    optimal_matching,
    updated_history,
    raised,             \* the exception that ended the run
    output_files,       \* the files of the directory output_path
    results             \* what the run returned

run == <<pc, args, all_participants, mixing_multiplier, matchings_history,
         updated_min_size, n_to_exclude, participants, list_of_matchings,
         criterion_values, optimal_matching, updated_history, raised,
         output_files, results>>

vars == <<call, run>>

\* a local that is not bound yet
Unset == [unset |-> TRUE]

\* no run of create_matching: the state of the checks of single functions
NoRun ==
    /\ pc = "no run"
    /\ args = Unset
    /\ all_participants = Unset
    /\ mixing_multiplier = Unset
    /\ matchings_history = Unset
    /\ updated_min_size = None
    /\ n_to_exclude = None
    /\ participants = Unset
    /\ list_of_matchings = Unset
    /\ criterion_values = <<>>
    /\ optimal_matching = Unset
    /\ updated_history = Unset
    /\ raised = "nothing"
    /\ output_files = NoFiles
    /\ results = Unset

\* ------------------------------------------------------------------------
\* Inputs
\* ------------------------------------------------------------------------
Ids == 1..MaxId

\* The history matrices the runs start from: a symmetric matrix of counts
\* 0..MaxCount with a zero diagonal, as the package writes them, or such a matrix
\* with its first diagonal cell or its top right cell raised by one (a file edited
\* by hand: a non-zero diagonal, an asymmetric pair).
SymmetricValues(n) ==
    {[i \in 1..n |-> [j \in 1..n |-> IF i = j THEN 0 ELSE f[<<IF i < j THEN i ELSE j,
                                                              IF i < j THEN j ELSE i>>]]]
       : f \in [{p \in (1..n) \X (1..n) : p[1] < p[2]} -> 0..MaxCount]}

Bumped(vals, i, j) == [vals EXCEPT ![i][j] = @ + 1]

HistoryValues(n) ==
    SymmetricValues(n)
      \cup {Bumped(v, 1, j) : v \in SymmetricValues(n), j \in {1, n}}

IsSymmetric(df) ==
    \A i, j \in 1..Len(df.index) : df.values[i][j] = df.values[j][i]

Diagonal(df) == [i \in 1..Len(df.index) |-> df.values[i][i]]

Descending(n) == [i \in 1..n |-> n + 1 - i]

\* every partition of the set S into non-empty blocks
RECURSIVE Partitions(_)
Partitions(S) ==
    IF S = {} THEN {{}}
    ELSE LET x == CHOOSE y \in S : TRUE
         IN UNION {{P \cup {B \cup {x}} : P \in Partitions((S \ {x}) \ B)}
                   : B \in SUBSET (S \ {x})}

Row(i) == [id |-> i]

\* a set of blocks as a matching: one group of rows for each block
RECURSIVE AsMatching(_)
AsMatching(P) ==
    IF P = {} THEN <<>>
    ELSE LET B == CHOOSE X \in P : TRUE
         IN <<[k \in 1..Cardinality(B) |-> Row(Ascending(B)[k])]>> \o AsMatching(P \ {B})

\* every matching over a subset of the identities S
Matchings(S) == {AsMatching(P) : P \in UNION {Partitions(T) : T \in SUBSET S}}

SameGroup(matching, a, b) ==
    \E g \in 1..Len(matching) :
        a \in Range(GroupIds(matching[g])) /\ b \in Range(GroupIds(matching[g]))

\* ------------------------------------------------------------------------
\* update_matchings_history on its own
\* ------------------------------------------------------------------------
InitFold ==
    /\ NoRun
    /\ \E vals \in HistoryValues(MaxId), matching \in Matchings(Ids),
       index \in {Ascending(Ids), Descending(MaxId)} :
        call = [op |-> "update_matchings_history", at |-> "called",
                matchings_history |-> [index |-> index, values |-> vals],
                matching |-> matching]

UpdateMatchingsHistory ==
    /\ call.op = "update_matchings_history"
    /\ call.at = "called"
    /\ call' = [call EXCEPT !.at = "returned"] @@
               [result |-> update_matchings_history(call.matchings_history, call.matching)]
    /\ UNCHANGED run

NextFold == UpdateMatchingsHistory

SpecFold == InitFold /\ [][NextFold]_vars

FoldReturned == call.op = "update_matchings_history" /\ call.at = "returned"

\* C1: update_matchings_history returns the history with +1 at [a,b] and at [b,a]
\* for every pair of distinct identities sharing a group of the matching, and
\* every other entry, the diagonal included, as it was.
FoldInAddsOnePerSharedPair ==
    FoldReturned =>
        /\ call.result.index = call.matchings_history.index
        /\ \A a, b \in Ids :
              Loc(call.result, a, b) =
                  Loc(call.matchings_history, a, b)
                    + (IF a # b /\ SameGroup(call.matching, a, b) THEN 1 ELSE 0)

FoldInSharedAndApartWitness ==
    /\ FoldReturned
    /\ \E a, b, c \in Ids :
          /\ a # b /\ SameGroup(call.matching, a, b)
          /\ Loc(call.matchings_history, a, b) > 0
          /\ Loc(call.result, a, b) = Loc(call.matchings_history, a, b) + 1
          /\ SameGroup(call.matching, c, c) /\ ~SameGroup(call.matching, a, c)

\* C2: the history returned by update_matchings_history is symmetric when the
\* history passed in is, and has the diagonal of the history passed in.
FoldInKeepsSymmetryAndDiagonal ==
    FoldReturned =>
        /\ IsSymmetric(call.matchings_history) => IsSymmetric(call.result)
        /\ Diagonal(call.result) = Diagonal(call.matchings_history)

FoldInSymmetricWitness ==
    /\ FoldReturned
    /\ IsSymmetric(call.matchings_history)
    /\ IsSymmetric(call.result)
    /\ call.result # call.matchings_history
    /\ \E i \in 1..MaxId : call.matchings_history.values[i][i] > 0


\* ------------------------------------------------------------------------
\* _add_new_individuals on its own, called once and then again on its result
\* ------------------------------------------------------------------------
\* every sequence without repetition over the set S
RECURSIVE Orderings(_)
Orderings(S) ==
    IF S = {} THEN {<<>>}
    ELSE UNION {{<<x>> \o o : o \in Orderings(S \ {x})} : x \in S}

\* the histories on file: the identities of an earlier run in ascending order
HistoryFrames ==
    UNION {{[index |-> Ascending(S), values |-> v] : v \in SymmetricValues(Cardinality(S))}
           : S \in SUBSET Ids}

\* the id column of a names table: identities in any order, without repetition
UniqueIdLists == UNION {Orderings(S) : S \in SUBSET Ids}

\* ... or with the first identity listed a second time
IdLists == UniqueIdLists \cup {o \o <<o[1]>> : o \in UniqueIdLists \ {<<>>}}

InitExtend ==
    /\ NoRun
    /\ \E history \in HistoryFrames, ids \in IdLists :
        call = [op |-> "_add_new_individuals", at |-> "called",
                matchings_history |-> history,
                names |-> [k \in 1..Len(ids) |-> Row(ids[k])]]

AddNewIndividuals ==
    /\ call.op = "_add_new_individuals"
    /\ call.at = "called"
    /\ call' = [call EXCEPT !.at = "returned"] @@
               [result |-> add_new_individuals(call.matchings_history, call.names)]
    /\ UNCHANGED run

AddNewIndividualsAgain ==
    /\ call.op = "_add_new_individuals"
    /\ call.at = "returned"
    /\ IsFrame(call.result)
    /\ call' = [call EXCEPT !.at = "returned again"] @@
               [again |-> add_new_individuals(call.result, call.names)]
    /\ UNCHANGED run

NextExtend == AddNewIndividuals \/ AddNewIndividualsAgain

SpecExtend == InitExtend /\ [][NextExtend]_vars

ExtendReturned ==
    call.op = "_add_new_individuals" /\ call.at \in {"returned", "returned again"}

\* C4: for a duplicate-free identity list, in whatever order, the result of
\* _add_new_individuals is indexed by every identity of the history and of the
\* list, keeps the history's value for every pair of identities of the history,
\* and has an all-zero row and column for every identity that is new.
ExtendKeepsPairsAndZeroPads ==
    (ExtendReturned /\ IsUnique(NamesId(call.names))) =>
        /\ IsFrame(call.result)
        /\ Range(call.result.index)
             = Range(call.matchings_history.index) \cup Range(NamesId(call.names))
        /\ \A a, b \in Range(call.matchings_history.index) :
              Loc(call.result, a, b) = Loc(call.matchings_history, a, b)
        /\ \A a \in Range(NamesId(call.names)) \ Range(call.matchings_history.index) :
              \A b \in Range(call.result.index) :
                  Loc(call.result, a, b) = 0 /\ Loc(call.result, b, a) = 0

\* C5: _add_new_individuals applied to its own result with the same names
\* returns that result.
ExtendIsIdempotent ==
    (call.op = "_add_new_individuals" /\ call.at = "returned again") =>
        call.again = call.result

ExtendTwiceWitness ==
    /\ call.op = "_add_new_individuals"
    /\ call.at = "returned again"
    /\ IsUnique(NamesId(call.names))
    /\ Len(call.matchings_history.index) > 0
    /\ Len(call.result.index) > Len(call.matchings_history.index)
    /\ \E i, j \in 1..Len(call.result.index) : call.result.values[i][j] > 0
    /\ call.again = call.result


\* ------------------------------------------------------------------------
\* draw_candidate_matchings on its own
\* ------------------------------------------------------------------------
MaxParticipants == 5

MaxDraws == 2

MaxSeed == 5

InitDraw ==
    /\ NoRun
    /\ \E n \in 1..MaxParticipants, min_size \in 0..(MaxParticipants + 1),
       n_draws \in 0..MaxDraws, seed \in 0..MaxSeed :
        call = [op |-> "draw_candidate_matchings", at |-> "called",
                participants |-> [k \in 1..n |-> Row(k)],
                min_size |-> min_size, n_draws |-> n_draws, seed |-> seed]

DrawCandidateMatchings ==
    /\ call.op = "draw_candidate_matchings"
    /\ call.at = "called"
    /\ call' = [call EXCEPT !.at = "returned"] @@
               [result |-> draw_candidate_matchings(call.participants, call.min_size,
                                                    call.n_draws, default_rng(call.seed))]
    /\ UNCHANGED run

NextDraw == DrawCandidateMatchings

SpecDraw == InitDraw /\ [][NextDraw]_vars

DrawReturned == call.op = "draw_candidate_matchings" /\ call.at = "returned"

GroupSizes(matching) == [g \in 1..Len(matching) |-> Len(matching[g])]

\* the groups are non-empty and disjoint and hold exactly the rows of participants
IsPartitionOf(matching, table) ==
    LET members == Flatten(matching)
    IN  /\ \A g \in 1..Len(matching) : Len(matching[g]) > 0
        /\ Len(members) = Len(table)
        /\ Range(members) = Range(table)

\* C6: for n >= min_size >= 1 participants draw_candidate_matchings returns
\* n_draws matchings, each a partition of the participants into groups of at
\* least min_size members whose sizes differ by at most 1.
DrawReturnsBalancedPartitions ==
    (DrawReturned /\ call.min_size >= 1 /\ Len(call.participants) >= call.min_size) =>
        /\ ~IsRaised(call.result)
        /\ Len(call.result.candidates) = call.n_draws
        /\ \A d \in 1..Len(call.result.candidates) :
              LET matching == call.result.candidates[d]
              IN  /\ IsPartitionOf(matching, call.participants)
                  /\ \A g \in 1..Len(matching) : Len(matching[g]) >= call.min_size
                  /\ \A g, h \in 1..Len(matching) :
                        Len(matching[g]) - Len(matching[h]) <= 1

DrawUnevenWitness ==
    /\ DrawReturned
    /\ ~IsRaised(call.result)
    /\ call.min_size >= 2
    /\ Len(call.result.candidates) = MaxDraws
    /\ call.result.candidates[1] # call.result.candidates[2]
    /\ GroupSizes(call.result.candidates[1]) = <<call.min_size + 1, call.min_size>>
    /\ NamesId(Flatten(call.result.candidates[1])) # NamesId(call.participants)


\* ------------------------------------------------------------------------
\* _compute_history_score on its own
\* ------------------------------------------------------------------------
\* the matrices scored: the history matrices, and those with the bottom left
\* cell raised by one
ScoredValues(n) ==
    HistoryValues(n) \cup {Bumped(v, n, 1) : v \in SymmetricValues(n)}

InitScore ==
    /\ NoRun
    /\ \E n \in 1..MaxId, penalty \in PenaltyFuncs :
        \E vals \in ScoredValues(n) :
            call = [op |-> "_compute_history_score", at |-> "called",
                    matchings_history |-> [index |-> [i \in 1..n |-> i], values |-> vals],
                    penalty_func |-> penalty]

ComputeHistoryScore ==
    /\ call.op = "_compute_history_score"
    /\ call.at = "called"
    /\ call' = [call EXCEPT !.at = "returned"] @@
               [result |-> compute_history_score(call.matchings_history, call.penalty_func)]
    /\ UNCHANGED run

NextScore == ComputeHistoryScore

SpecScore == InitScore /\ [][NextScore]_vars

ScoreReturned == call.op = "_compute_history_score" /\ call.at = "returned"

BelowDiagonal(n) == {p \in (1..n) \X (1..n) : p[1] > p[2]}

\* C7: the history score is the sum of the penalty of H[i,j] over the positions
\* i > j: one term for each unordered pair, none for the diagonal or the upper
\* triangle.
HistoryScoreSumsLowerTriangle ==
    ScoreReturned =>
        LET n == Len(call.matchings_history.index)
        IN  call.result =
              RatSumOver(BelowDiagonal(n),
                         [p \in BelowDiagonal(n) |->
                             penalty_func(call.penalty_func,
                                          call.matchings_history.values[p[1]][p[2]])])

HistoryScoreWitness ==
    /\ ScoreReturned
    /\ call.penalty_func = "np.exp"
    /\ Len(call.matchings_history.index) = MaxId
    /\ call.matchings_history.values[1][1] > 0
    /\ \E p \in BelowDiagonal(MaxId) : call.matchings_history.values[p[1]][p[2]] > 0
    /\ \E p \in BelowDiagonal(MaxId) : call.matchings_history.values[p[1]][p[2]] = 0


\* ------------------------------------------------------------------------
\* _compute_assortativity_score on its own
\* ------------------------------------------------------------------------
StatusValues == {"faculty", "student", NA}

\* the second status column of test_algorithm.py 205, fixed by the identity
Room(i) == IF i % 2 = 1 THEN "roomX" ELSE "roomY"

\* the participants tables over the identities 1..n, with one status column or two
ParticipantTables(n) ==
    {[i \in 1..n |-> [id |-> i, status |-> [status |-> st[i]], wants_mixing |-> wm[i]]]
       : st \in [1..n -> StatusValues], wm \in [1..n -> {0, 1}]}
    \cup
    {[i \in 1..n |-> [id |-> i, status |-> [status |-> st[i], status2 |-> Room(i)],
                      wants_mixing |-> wm[i]]]
       : st \in [1..n -> StatusValues], wm \in [1..n -> {0, 1}]}

\* blocks of identities as a matching of rows of the table
WithRows(matching, table) ==
    [g \in 1..Len(matching) |-> LocRows(table, GroupIds(matching[g]))]

\* mixing_multiplier: 3.0 (the default, create_matching.py 26) or -1.0 for
\* "status", -1.0 for "status2" (test_algorithm.py 212)
MixingMultipliers == {[status |-> m, status2 |-> -1] : m \in {3, -1}}

InitAssort ==
    /\ NoRun
    /\ \E n \in 1..MaxId, multiplier \in MixingMultipliers :
        \E table \in ParticipantTables(n), P \in Partitions(1..n) :
            call = [op |-> "_compute_assortativity_score", at |-> "called",
                    matching |-> WithRows(AsMatching(P), table),
                    mixing_multiplier |-> multiplier]

ComputeAssortativityScore ==
    /\ call.op = "_compute_assortativity_score"
    /\ call.at = "called"
    /\ call' = [call EXCEPT !.at = "returned"] @@
               [result |-> compute_assortativity_score(call.matching, call.mixing_multiplier)]
    /\ UNCHANGED run

NextAssort == ComputeAssortativityScore

SpecAssort == InitAssort /\ [][NextAssort]_vars

AssortReturned == call.op = "_compute_assortativity_score" /\ call.at = "returned"

\* the distinct non-missing values of status column d among the members of group
DistinctStatuses(group, d) ==
    {v \in StatusValues \cup {"roomX", "roomY"} :
        v # NA /\ \E m \in 1..Len(group) : group[m].status[d] = v}

\* C8: the assortativity score is the sum, over the groups g and status columns d
\* in which g holds u > 1 distinct non-missing values, of
\* multiplier[d] * u * (members of g with wants_mixing = 0) / (members of g):
\* a homogeneous group adds nothing and a member who wants mixing adds nothing.
AssortativityScoreIsSumOfMeans ==
    AssortReturned =>
        LET mixed == {p \in (1..Len(call.matching)) \X DOMAIN call.matching[1][1].status :
                         Cardinality(DistinctStatuses(call.matching[p[1]], p[2])) > 1}
            term(g, d) ==
                Rat(call.mixing_multiplier[d]
                      * Cardinality(DistinctStatuses(call.matching[g], d))
                      * Cardinality({m \in 1..Len(call.matching[g]) :
                                        call.matching[g][m].wants_mixing = 0}),
                    Len(call.matching[g]))
        IN  call.result = RatSumOver(mixed, [p \in mixed |-> term(p[1], p[2])])

AssortativityMixedWitness ==
    /\ AssortReturned
    /\ \E g \in 1..Len(call.matching) :
          /\ Cardinality(DistinctStatuses(call.matching[g], "status")) = 2
          /\ \E m \in 1..Len(call.matching[g]) : call.matching[g][m].status.status = NA
          /\ \E m, k \in 1..Len(call.matching[g]) :
                /\ call.matching[g][m].wants_mixing = 1
                /\ call.matching[g][k].wants_mixing = 0
    /\ "status2" \in DOMAIN call.matching[1][1].status
    /\ call.result.num # 0


\* ------------------------------------------------------------------------
\* create_matching  (create_matching.py 18-228)
\* ------------------------------------------------------------------------
MaxNames == 4

MaxSize == 4

\* the largest names table of the runs that differ in the size options
MaxJoining == 5

\* the name of the person with identity i, where every person has a name of
\* their own
PersonName(i) == "person " \o str(i)

\* the names table of n identities, all joining; the first two are faculty, the
\* others students, and those in wants ask for mixing
NamesTable(n, wants) ==
    [i \in 1..n |-> [id |-> i, name |-> PersonName(i), joins |-> 1,
                     status |-> [status |-> IF i <= 2 THEN "faculty" ELSE "student"],
                     wants_mixing |-> IF i \in wants THEN 1 ELSE 0]]

NoFile == [path |-> "None"]

\* a history file with these lines
HistoryFile(lines) == [path |-> "matchings_history.csv", lines |-> lines]

\* the history files: none, or what an earlier run wrote after folding one
\* matching of the first k identities into a zero history
HistoryFiles(n) ==
    {NoFile} \cup
    UNION {{HistoryFile(to_csv(update_matchings_history(
                                   [index |-> [i \in 1..k |-> i], values |-> Zeros(k)],
                                   AsMatching(P)))) : P \in Partitions(1..k)}
           : k \in {n - 1, n}}

\* what the runs of the other claims do with their results: they return them
\* and write nothing
Returning == [output_path |-> "None", return_results |-> TRUE, overwrite |-> FALSE]

\* runs that differ in what is scored: groups of two or three among MaxNames
\* participants, every history file, penalty function and seed
ScoringRuns ==
    {[names |-> NamesTable(MaxNames, assort.wants), matchings_history_file |-> file,
      min_size |-> 2, n_groups |-> None, max_size |-> None,
      penalty_func |-> penalty, mixing_multiplier |-> [float |-> assort.multiplier],
      assortative_matching |-> assort.on, n_draws |-> n_draws, seed |-> seed]
      @@ Returning
       : assort \in {[on |-> FALSE, multiplier |-> 3, wants |-> {}],
                     [on |-> TRUE, multiplier |-> 3, wants |-> {}],
                     [on |-> TRUE, multiplier |-> -1, wants |-> {1}]},
         file \in HistoryFiles(MaxNames), penalty \in PenaltyFuncs,
         n_draws \in 1..MaxDraws, seed \in 0..MaxSeed}

\* runs that differ in the group size options
SizingRuns ==
    {[names |-> NamesTable(n, {}), matchings_history_file |-> NoFile,
      min_size |-> min_size, n_groups |-> n_groups, max_size |-> max_size,
      penalty_func |-> "np.exp", mixing_multiplier |-> [float |-> 3],
      assortative_matching |-> FALSE, n_draws |-> n_draws, seed |-> 0]
      @@ Returning
       : n \in 2..MaxJoining, min_size \in 0..MaxSize,
         n_groups \in {None} \cup 0..MaxSize, max_size \in {None} \cup 0..MaxSize,
         n_draws \in {0, 1}}

\* a penalty function that returns one number for an array (np.sum), besides
\* those that return an array
Penalties == PenaltyFuncs \cup {"np.sum"}

\* penalty_func applied to an array
apply_penalty_func(name, x) ==
    IF name = "np.sum" THEN [scalar |-> RatOf(SumSeq(x))]
    ELSE [ndarray |-> [i \in 1..Len(x) |-> penalty_func(name, x[i])]]

\* runs that differ in what is done with the results (written, returned, both
\* or neither) and in the kind of the penalty function: three participants
\* in groups of two, with and without a maximal size
OutputRuns ==
    {[names |-> NamesTable(3, {}), matchings_history_file |-> NoFile,
      min_size |-> 2, n_groups |-> None, max_size |-> max_size,
      penalty_func |-> penalty, mixing_multiplier |-> [float |-> 3],
      assortative_matching |-> FALSE, n_draws |-> 1, seed |-> 0,
      output_path |-> output_path, return_results |-> return_results,
      overwrite |-> overwrite]
       : max_size \in {None, 2}, penalty \in {"np.exp", "np.sum"},
         output_path \in {"None", "out"}, return_results \in BOOLEAN,
         overwrite \in BOOLEAN}

\* a names table of students from its columns
Listing(ids, names, joins) ==
    [i \in 1..Len(ids) |-> [id |-> ids[i], name |-> names[i], joins |-> joins[i],
                            status |-> [status |-> "student"], wants_mixing |-> 0]]

\* names tables of three rows: any identities, some not joining, everybody
\* with a name of their own or the first two with the same name.  An identity
\* listed twice is listed in rows that join.
ListedTables ==
    {Listing(ids, names, joins) :
        ids \in [1..3 -> 1..MaxId],
        names \in {<<PersonName(1), PersonName(2), PersonName(3)>>,
                   <<PersonName(1), PersonName(1), PersonName(3)>>},
        joins \in [1..3 -> {0, 1}]}

\* the history file of an earlier run in which 1 and 2 were the only ones
\* listed and formed a group
EarlierFile ==
    HistoryFile(to_csv(update_matchings_history([index |-> <<1, 2>>, values |-> Zeros(2)],
                                                AsMatching({{1, 2}}))))

\* runs that differ in the names table: groups of two, with and without a
\* maximal size and a history file
ListedRuns ==
    {[names |-> names, matchings_history_file |-> file,
      min_size |-> 2, n_groups |-> None, max_size |-> max_size,
      penalty_func |-> "np.exp", mixing_multiplier |-> [float |-> 3],
      assortative_matching |-> FALSE, n_draws |-> 1, seed |-> 0]
      @@ Returning
       : names \in {t \in ListedTables :
                       \A i, j \in 1..Len(t) :
                           (i # j /\ t[i].id = t[j].id) => (t[i].joins = 1 /\ t[j].joins = 1)},
         file \in {NoFile, EarlierFile}, max_size \in {None, 2}}

Init ==
    /\ call = [op |-> "create_matching", sorts |-> {}]
    /\ args \in ScoringRuns \cup SizingRuns \cup OutputRuns \cup ListedRuns
    /\ pc = "validate"
    /\ all_participants = Unset
    /\ mixing_multiplier = Unset
    /\ matchings_history = Unset
    /\ updated_min_size = None
    /\ n_to_exclude = None
    /\ participants = Unset
    /\ list_of_matchings = Unset
    /\ criterion_values = <<>>
    /\ optimal_matching = Unset
    /\ updated_history = Unset
    /\ raised = "nothing"
    /\ output_files = NoFiles
    /\ results = Unset

\* a bug that turns the comparison around
max_size_above_min_size(min_size, max_size) == max_size # None /\ max_size > min_size

\* line 88: max_size is not None and min_size > max_size
min_size_above_max_size(min_size, max_size) == max_size # None /\ min_size > max_size

\* lines 69-131: the participants and the multiplier dict, or the exception raised
Validated(a) ==
    LET test_penalties == apply_penalty_func(a.penalty_func, <<1, 2>>)
        joining == Joining(a.names)
        columns == NamesStatusColumns(a.names)
        multiplier == IF a.assortative_matching
                      THEN MultiplierDict(a.mixing_multiplier, columns)
                      ELSE a.mixing_multiplier
    IN  IF a.output_path = "None" /\ ~a.return_results
        THEN Raise("ValueError: No output path is given and return_results is set to False")
        ELSE IF "ndarray" \notin DOMAIN test_penalties \/ Len(test_penalties.ndarray) # 2
        THEN Raise("ValueError: penalty_func must return a numpy array")
        ELSE IF min_size_above_max_size(a.min_size, a.max_size)
        THEN Raise("ValueError: min_size must be smaller than max_size")
        ELSE IF ~IsUnique(NamesId(joining))
        THEN Raise("ValueError: id column in names table is not unique")
        ELSE IF Len(joining) < a.min_size
        THEN Raise("ValueError: There are less participants than 'min_size'")
        ELSE IF a.assortative_matching /\ columns = {}
        THEN Raise("ValueError: 'status' column is not present in names table")
        ELSE IF IsRaised(multiplier) THEN multiplier
        ELSE [all_participants |->
                 [i \in 1..Len(joining) |->
                     IF a.assortative_matching /\ "wants_mixing" \notin DOMAIN joining[i]
                     THEN joining[i] @@ [wants_mixing |-> 0]
                     ELSE joining[i]],
              mixing_multiplier |-> multiplier]

Validate ==
    /\ pc = "validate"
    /\ LET checked == Validated(args)
       IN IF IsRaised(checked)
          THEN /\ pc' = "raised"
               /\ raised' = checked.raised
               /\ UNCHANGED <<all_participants, mixing_multiplier>>
          ELSE /\ pc' = "read history"
               /\ all_participants' = checked.all_participants
               /\ mixing_multiplier' = checked.mixing_multiplier
               /\ UNCHANGED raised
    /\ UNCHANGED <<call, args, matchings_history, updated_min_size, n_to_exclude,
                   participants, list_of_matchings, criterion_values,
                   optimal_matching, updated_history>>
    /\ UNCHANGED <<output_files, results>>

\* lines 133-140
ReadHistory ==
    /\ pc = "read history"
    /\ LET extended == add_new_individuals(
                           read_or_create_matchings_history(args.names,
                                                            args.matchings_history_file),
                           args.names)
       IN IF IsRaised(extended)
          THEN /\ pc' = "raised"
               /\ raised' = extended.raised
               /\ UNCHANGED matchings_history
          ELSE /\ pc' = "consolidate"
               /\ matchings_history' = extended
               /\ UNCHANGED raised
    /\ UNCHANGED <<call, args, all_participants, mixing_multiplier, updated_min_size,
                   n_to_exclude, participants, list_of_matchings, criterion_values,
                   optimal_matching, updated_history>>
    /\ UNCHANGED <<output_files, results>>

\* lines 146-170
Consolidate ==
    /\ pc = "consolidate"
    /\ LET sizes == ConsolidateGroupSizes(args.min_size, args.n_groups, args.max_size,
                                          Len(all_participants))
       IN IF IsRaised(sizes)
          THEN /\ pc' = "raised"
               /\ raised' = sizes.raised
               /\ UNCHANGED <<updated_min_size, n_to_exclude>>
          ELSE /\ pc' = "exclude"
               /\ updated_min_size' = sizes.updated_min_size
               /\ n_to_exclude' = sizes.n_to_exclude
               /\ UNCHANGED raised
    /\ UNCHANGED <<call, args, all_participants, mixing_multiplier, matchings_history,
                   participants, list_of_matchings, criterion_values,
                   optimal_matching, updated_history>>
    /\ UNCHANGED <<output_files, results>>

\* what the sort of this build has given so far for the call at hand
SortsSeen(input) == {sort \in call.sorts : sort.input = input}

\* lines 176-182.  The sort is a function of its input on a given build: a
\* call that repeats an earlier one returns what the earlier one returned.
ExcludeParticipants ==
    /\ pc = "exclude"
    /\ LET input == [participants |-> all_participants,
                     matchings_history |-> matchings_history,
                     n_to_exclude |-> n_to_exclude]
       IN \E kept \in exclude_participants_with_most_matchings(
                          all_participants, matchings_history, n_to_exclude) :
             /\ \A sort \in SortsSeen(input) : sort.output = kept
             /\ participants' = kept
             /\ call' = [call EXCEPT
                            !.sorts = @ \cup {[input |-> input, output |-> kept]}]
    /\ pc' = "draw"
    /\ UNCHANGED <<args, all_participants, mixing_multiplier, matchings_history,
                   updated_min_size, n_to_exclude, list_of_matchings, criterion_values,
                   optimal_matching, updated_history, raised>>
    /\ UNCHANGED <<output_files, results>>

\* what the operating system would hand to an unseeded generator in this run
OsEntropy == IF "entropy" \in DOMAIN call THEN call.entropy ELSE 0

\* lines 188-195
Draw ==
    /\ pc = "draw"
    /\ LET drawn == draw_candidate_matchings(participants, updated_min_size,
                                             args.n_draws, create_rng(args.seed, OsEntropy))
       IN IF IsRaised(drawn)
          THEN /\ pc' = "raised"
               /\ raised' = drawn.raised
               /\ UNCHANGED list_of_matchings
          ELSE /\ pc' = "score"
               /\ list_of_matchings' = drawn.candidates
               /\ UNCHANGED raised
    /\ UNCHANGED <<call, args, all_participants, mixing_multiplier, matchings_history,
                   updated_min_size, n_to_exclude, participants, criterion_values,
                   optimal_matching, updated_history>>
    /\ UNCHANGED <<output_files, results>>

\* find_optimal_matching, algorithm.py 34-39: one pass of the loop
ScoreCandidate ==
    /\ pc = "score"
    /\ Len(criterion_values) < Len(list_of_matchings)
    /\ LET scored == ScoreOf(list_of_matchings[Len(criterion_values) + 1],
                             matchings_history, args.penalty_func,
                             IF args.assortative_matching THEN mixing_multiplier.dict
                             ELSE mixing_multiplier,
                             args.assortative_matching)
       IN /\ criterion_values' = Append(criterion_values, scored.score)
          /\ matchings_history' = scored.matchings_history
    /\ UNCHANGED <<call, pc, args, all_participants, mixing_multiplier, updated_min_size,
                   n_to_exclude, participants, list_of_matchings, optimal_matching,
                   updated_history, raised>>
    /\ UNCHANGED <<output_files, results>>

\* find_optimal_matching, algorithm.py 41-42; np.argmin of an empty list raises
Select ==
    /\ pc = "score"
    /\ Len(criterion_values) = Len(list_of_matchings)
    /\ IF criterion_values = <<>>
       THEN /\ pc' = "raised"
            /\ raised' = "ValueError: attempt to get argmin of an empty sequence"
            /\ UNCHANGED optimal_matching
       ELSE /\ pc' = "prepare results"
            /\ optimal_matching' = list_of_matchings[argmin(criterion_values)]
            /\ UNCHANGED raised
    /\ UNCHANGED <<call, args, all_participants, mixing_multiplier, matchings_history,
                   updated_min_size, n_to_exclude, participants, list_of_matchings,
                   criterion_values, updated_history>>
    /\ UNCHANGED <<output_files, results>>

\* line 182: set(all_participants.name) - set(participants.name)
excluded_participants ==
    {all_participants[i].name : i \in 1..Len(all_participants)}
        \ {participants[i].name : i \in 1..Len(participants)}

\* the files create_matching writes to output_path
HistoryFileName == FileName("updated_matchings_history", ".csv")

MatchingFileName == FileName("matching", ".txt")

\* what a call without return_results hands back
ReturnsNone == [returned |-> "None"]

\* lines 209-228.  The order in which the set of the excluded is listed and
\* what the user answers when asked for another file name are not the
\* program's to choose.
PrepareResults ==
    /\ pc = "prepare results"
    /\ LET updated == update_matchings_history_call(matchings_history, optimal_matching)
       IN /\ updated_history' = updated.updated_history
          /\ matchings_history' = updated.matchings_history
          /\ \E listed \in Orderings(excluded_participants),
                history_answer \in PromptAnswers(HistoryFileName),
                matching_answer \in PromptAnswers(MatchingFileName) :
                LET matching_str_repr == format_matching_as_str(optimal_matching, listed)
                    history_path == file_path(output_files, HistoryFileName,
                                              args.overwrite, history_answer)
                    with_history == Written(output_files, history_path,
                                            to_csv(updated.updated_history))
                    matching_path == file_path(with_history, MatchingFileName,
                                               args.overwrite, matching_answer)
                IN  /\ output_files' =
                           IF args.output_path = "None" THEN output_files
                           ELSE Written(with_history, matching_path, matching_str_repr)
                    /\ results' =
                           IF args.return_results
                           THEN [matching_str |-> matching_str_repr,
                                 matching |-> optimal_matching,
                                 updated_history |-> updated.updated_history]
                           ELSE ReturnsNone
    /\ pc' = "returned"
    /\ UNCHANGED <<call, args, all_participants, mixing_multiplier, updated_min_size,
                   n_to_exclude, participants, list_of_matchings, criterion_values,
                   optimal_matching, raised>>

Next ==
    \/ Validate
    \/ ReadHistory
    \/ Consolidate
    \/ ExcludeParticipants
    \/ Draw
    \/ ScoreCandidate
    \/ Select
    \/ PrepareResults

Spec == Init /\ [][Next]_vars


\* the history the run scores against: the file read (or the zero history
\* created) and extended by the identities of the names table
ExtendedInput ==
    add_new_individuals(
        read_or_create_matchings_history(args.names, args.matchings_history_file),
        args.names)

\* C3: the history frame of create_matching is the extended input history, entry
\* for entry, after every pass of the scoring loop, after the selection and
\* after the final fold-in: no call of update_matchings_history changes it.
HistoryKeptWhileScoring ==
    pc \in {"score", "prepare results", "returned"} => matchings_history = ExtendedInput

HistoryKeptWitness ==
    /\ pc = "prepare results"
    /\ Len(criterion_values) = MaxDraws
    /\ \E a, b \in Range(matchings_history.index) : Loc(matchings_history, a, b) > 0
    /\ \E d \in 1..MaxDraws, a, b \in Range(matchings_history.index) :
          a # b /\ SameGroup(list_of_matchings[d], a, b)

\* the score of the j-th candidate against the extended input history
CandidateScore(j) ==
    ScoreOf(list_of_matchings[j], ExtendedInput, args.penalty_func,
            IF args.assortative_matching THEN mixing_multiplier.dict ELSE mixing_multiplier,
            args.assortative_matching).score

\* C9: the matching selected is a candidate whose score (history term of the
\* history with the candidate folded in, plus the assortativity term when
\* enabled) is not above the score of any candidate, and every candidate before
\* it in the list has a strictly larger score.
OptimalMatchingIsFirstMinimum ==
    pc \in {"prepare results", "returned"} =>
        \E k \in 1..Len(list_of_matchings) :
            /\ optimal_matching = list_of_matchings[k]
            /\ \A j \in 1..Len(list_of_matchings) :
                  ~RatLess(CandidateScore(j), CandidateScore(k))
            /\ \A j \in 1..(k - 1) : RatLess(CandidateScore(k), CandidateScore(j))

OptimalMatchingWitness ==
    /\ pc = "returned"
    /\ args.assortative_matching
    /\ Len(list_of_matchings) = 2
    /\ optimal_matching = list_of_matchings[2]
    /\ RatLess(CandidateScore(2), CandidateScore(1))

\* C10: the updated history returned by create_matching is the extended input
\* history with 1 added at [a,b] for exactly the pairs of distinct identities
\* that share a group of the matching returned.
UpdatedHistoryIsWinnerFoldedIn ==
    pc = "returned" =>
        /\ updated_history.index = ExtendedInput.index
        /\ \A a, b \in Range(ExtendedInput.index) :
              Loc(updated_history, a, b) =
                  Loc(ExtendedInput, a, b)
                    + (IF a # b /\ SameGroup(optimal_matching, a, b) THEN 1 ELSE 0)

UpdatedHistoryWitness ==
    /\ pc = "returned"
    /\ args.matchings_history_file # NoFile
    /\ Len(read_csv(args.matchings_history_file.lines).index) < Len(args.names)
    /\ Len(optimal_matching) = 2
    /\ Len(list_of_matchings) = 2
    /\ optimal_matching # list_of_matchings[1]
    /\ \E a, b \in Range(ExtendedInput.index) :
          Loc(ExtendedInput, a, b) = 1 /\ Loc(updated_history, a, b) = 2


\* ------------------------------------------------------------------------
\* Two runs of create_matching on the same inputs
\* ------------------------------------------------------------------------
\* the runs repeated: the runs of fewer than MaxNames participants with a
\* maximal size and one draw, and the scoring runs with the default penalty and
\* MaxDraws draws
RepeatedRuns ==
    {a \in SizingRuns : a.n_draws = 1 /\ a.max_size # None /\ Len(a.names) < MaxNames} \cup
    {a \in ScoringRuns : /\ a.penalty_func = "np.exp"
                         /\ a.n_draws = MaxDraws
                         /\ ~a.assortative_matching}

\* what a run handed back: the results dict (create_matching.py 223-228) or the
\* exception
Outcome ==
    IF pc = "raised" THEN Raise(raised)
    ELSE [matching |-> optimal_matching, updated_history |-> updated_history]

InitTwice ==
    /\ call = [op |-> "create_matching twice", run |-> 1, entropy |-> 0, sorts |-> {}]
    /\ args \in RepeatedRuns
    /\ pc = "validate"
    /\ all_participants = Unset
    /\ mixing_multiplier = Unset
    /\ matchings_history = Unset
    /\ updated_min_size = None
    /\ n_to_exclude = None
    /\ participants = Unset
    /\ list_of_matchings = Unset
    /\ criterion_values = <<>>
    /\ optimal_matching = Unset
    /\ updated_history = Unset
    /\ raised = "nothing"
    /\ output_files = NoFiles
    /\ results = Unset

\* the second call of create_matching with the arguments and files of the
\* first, at a time when the operating system hands out other entropy
RunAgain ==
    /\ call.op = "create_matching twice"
    /\ call.run = 1
    /\ pc \in {"returned", "raised"}
    /\ \E entropy \in 0..MaxSeed :
          call' = [op |-> "create_matching twice", run |-> 2, entropy |-> entropy,
                   sorts |-> call.sorts, first |-> Outcome]
    /\ pc' = "validate"
    /\ all_participants' = Unset
    /\ mixing_multiplier' = Unset
    /\ matchings_history' = Unset
    /\ updated_min_size' = None
    /\ n_to_exclude' = None
    /\ participants' = Unset
    /\ list_of_matchings' = Unset
    /\ criterion_values' = <<>>
    /\ optimal_matching' = Unset
    /\ updated_history' = Unset
    /\ raised' = "nothing"
    /\ results' = Unset
    /\ UNCHANGED <<args, output_files>>

NextTwice ==
    \/ Next
    \/ RunAgain

SpecTwice == InitTwice /\ [][NextTwice]_vars

\* C11: a second run of create_matching with the same names table, history
\* file, parameters and seed ends as the first did: it returns the same
\* matching and the same updated history, or raises the same exception.
SecondRunRepeatsFirst ==
    (call.op = "create_matching twice" /\ call.run = 2 /\ pc \in {"returned", "raised"}) =>
        Outcome = call.first

SecondRunWitness ==
    /\ call.run = 2
    /\ call.entropy # args.seed
    /\ pc = "returned"
    /\ args.n_draws = MaxDraws
    /\ args.matchings_history_file # NoFile
    /\ optimal_matching # list_of_matchings[1]
    /\ Outcome = call.first


\* ------------------------------------------------------------------------
\* The group size options on their own: update_min_size_using_n_groups,
\* get_number_of_excluded_participants and lines 146-170 of create_matching
\* ------------------------------------------------------------------------
MaxCrowd == 7

InitSizes ==
    /\ NoRun
    /\ \E min_size \in 0..MaxSize, n_participants \in 0..MaxCrowd :
          \/ \E n_groups \in 0..MaxSize :
                call = [op |-> "update_min_size_using_n_groups", at |-> "called",
                        min_size |-> min_size, n_groups |-> n_groups,
                        n_participants |-> n_participants]
          \/ \E n_groups \in {None} \cup 0..MaxSize, max_size \in 0..MaxSize :
                call = [op |-> "get_number_of_excluded_participants", at |-> "called",
                        min_size |-> min_size, max_size |-> max_size,
                        n_groups |-> n_groups, n_participants |-> n_participants]
          \/ \E n_groups \in {None} \cup 0..MaxSize, max_size \in {None} \cup 0..MaxSize :
                \* what passed the checks of lines 88 and 104
                /\ max_size # None => min_size <= max_size
                /\ n_participants >= min_size
                /\ call = [op |-> "consolidate group size options", at |-> "called",
                           min_size |-> min_size, max_size |-> max_size,
                           n_groups |-> n_groups, n_participants |-> n_participants]

UpdateMinSizeUsingNGroups ==
    /\ call.op = "update_min_size_using_n_groups"
    /\ call.at = "called"
    /\ call' = [call EXCEPT !.at = "returned"] @@
               [result |-> update_min_size_using_n_groups(
                               call.min_size, call.n_groups, call.n_participants)]
    /\ UNCHANGED run

GetNumberOfExcludedParticipants ==
    /\ call.op = "get_number_of_excluded_participants"
    /\ call.at = "called"
    /\ call' = [call EXCEPT !.at = "returned"] @@
               [result |-> get_number_of_excluded_participants(
                               call.min_size, call.max_size, call.n_groups,
                               call.n_participants)]
    /\ UNCHANGED run

ConsolidateGroupSizeOptions ==
    /\ call.op = "consolidate group size options"
    /\ call.at = "called"
    /\ call' = [call EXCEPT !.at = "returned"] @@
               [result |-> ConsolidateGroupSizes(
                               call.min_size, call.n_groups, call.max_size,
                               call.n_participants)]
    /\ UNCHANGED run

NextSizes ==
    \/ UpdateMinSizeUsingNGroups
    \/ GetNumberOfExcludedParticipants
    \/ ConsolidateGroupSizeOptions

SpecSizes == InitSizes /\ [][NextSizes]_vars

SizesReturned(op) == call.op = op /\ call.at = "returned"

\* q is floor(n / d), said without the division of the code
IsFloorOf(q, n, d) == q * d <= n /\ n < (q + 1) * d

\* C12: for a number of groups n_groups >= 1, update_min_size_using_n_groups
\* raises the error 'There are not enough participants' exactly when the
\* min_size of the caller is greater than floor(n_participants / n_groups),
\* and returns floor(n_participants / n_groups) otherwise.
MinSizeFromNGroups ==
    (SizesReturned("update_min_size_using_n_groups") /\ call.n_groups >= 1) =>
        \E q \in 0..call.n_participants :
            /\ IsFloorOf(q, call.n_participants, call.n_groups)
            /\ IF call.min_size > q
               THEN call.result = Raise("ValueError: There are not enough participants")
               ELSE call.result = [min_size |-> q]

MinSizeRefusedWitness ==
    /\ SizesReturned("update_min_size_using_n_groups")
    /\ call.n_groups = 2
    /\ call.n_participants = 4
    /\ call.min_size = 3
    /\ IsRaised(call.result)


\* the effective minimum group size before any exclusion: floor(n / n_groups)
\* when n_groups is given (lines 146-151), the caller's min_size otherwise
EffectiveMinSize ==
    IF call.n_groups # None THEN FloorDiv(call.n_participants, call.n_groups)
    ELSE call.min_size

\* r is n mod d, said without the % of the code
IsRemainderOf(r, n, d) == 0 <= r /\ r < d /\ \E q \in 0..n : n = q * d + r

\* C13 as stated: whenever max_size is given and equals the effective minimum
\* group size, the number to exclude is participant_count mod max_size,
\* whether or not n_groups is given.
ExcludedIsRemainderWheneverSizesEqual ==
    (/\ SizesReturned("consolidate group size options")
     /\ call.max_size # None
     /\ call.max_size >= 1
     /\ call.n_groups # 0
     /\ ~IsRaised(call.result)
     /\ call.max_size = EffectiveMinSize) =>
        IsRemainderOf(call.result.n_to_exclude, call.n_participants, call.max_size)

\* C13, amended: when max_size >= 1 is given, n_groups is not given and max_size
\* equals min_size, the number to exclude is participant_count mod max_size,
\* no recomputation of the minimum size is requested and the minimum size
\* stays min_size.
ExcludedIsRemainderWithoutNGroups ==
    /\ (/\ SizesReturned("get_number_of_excluded_participants")
        /\ call.n_groups = None
        /\ call.max_size >= 1
        /\ call.max_size = call.min_size) =>
           /\ ~IsRaised(call.result)
           /\ IsRemainderOf(call.result.n_to_exclude, call.n_participants, call.max_size)
           /\ ~call.result.requires_consolidation
    /\ (/\ SizesReturned("consolidate group size options")
        /\ call.n_groups = None
        /\ call.max_size # None
        /\ call.max_size >= 1
        /\ call.max_size = call.min_size) =>
           /\ ~IsRaised(call.result)
           /\ IsRemainderOf(call.result.n_to_exclude, call.n_participants, call.max_size)
           /\ call.result.updated_min_size = call.min_size

ExcludedIsRemainderWitness ==
    /\ SizesReturned("get_number_of_excluded_participants")
    /\ call.n_groups = None
    /\ call.min_size = 2
    /\ call.max_size = 2
    /\ call.n_participants = 5
    /\ call.result = [n_to_exclude |-> 1, requires_consolidation |-> FALSE]


\* participant_count - n_groups * max_size of the call at hand
Surplus == call.n_participants - call.n_groups * call.max_size

\* C14: with max_size and n_groups both given, the number to exclude is
\* max(0, participant_count - n_groups * max_size) and a recomputation is
\* requested exactly when it is positive; create_matching then takes
\* floor((participant_count - excluded) / n_groups) as the minimum size when
\* somebody is excluded, and keeps floor(participant_count / n_groups) when not.
ExcludedIsSurplusOverNGroups ==
    /\ (/\ SizesReturned("get_number_of_excluded_participants")
        /\ call.n_groups # None) =>
           /\ ~IsRaised(call.result)
           /\ call.result.n_to_exclude = (IF Surplus > 0 THEN Surplus ELSE 0)
           /\ call.result.requires_consolidation = (Surplus > 0)
    /\ (/\ SizesReturned("consolidate group size options")
        /\ call.n_groups # None
        /\ call.max_size # None
        /\ ~IsRaised(call.result)) =>
           /\ call.result.n_to_exclude = (IF Surplus > 0 THEN Surplus ELSE 0)
           /\ IsFloorOf(call.result.updated_min_size,
                        call.n_participants - call.result.n_to_exclude, call.n_groups)

ExcludedIsSurplusWitness ==
    /\ SizesReturned("consolidate group size options")
    /\ call.n_groups = 2
    /\ call.max_size = 2
    /\ call.min_size = 2
    /\ call.n_participants = 7
    /\ call.result = [updated_min_size |-> 2, n_to_exclude |-> 3]


\* ------------------------------------------------------------------------
\* _exclude_participants_with_most_matchings on its own
\* ------------------------------------------------------------------------
InitExclude ==
    /\ NoRun
    /\ \E vals \in SymmetricValues(MaxId), ids \in UniqueIdLists,
          to_exclude \in 0..MaxId :
          /\ to_exclude <= Len(ids)
          /\ call = [op |-> "_exclude_participants_with_most_matchings", at |-> "called",
                     participants |-> [k \in 1..Len(ids) |-> Row(ids[k])],
                     matchings_history |-> [index |-> Ascending(Ids), values |-> vals],
                     n_to_exclude |-> to_exclude]

ExcludeParticipantsWithMostMatchings ==
    /\ call.op = "_exclude_participants_with_most_matchings"
    /\ call.at = "called"
    /\ \E kept \in exclude_participants_with_most_matchings(
                       call.participants, call.matchings_history, call.n_to_exclude) :
          call' = [call EXCEPT !.at = "returned"] @@ [result |-> kept]
    /\ UNCHANGED run

NextExclude == ExcludeParticipantsWithMostMatchings

SpecExclude == InitExclude /\ [][NextExclude]_vars

ExcludeReturned ==
    call.op = "_exclude_participants_with_most_matchings" /\ call.at = "returned"

\* the identities the call removed
Removed == Range(NamesId(call.participants)) \ Range(NamesId(call.result))

\* the total match count of the identity a in the history of the call
TotalCount(a) == ColumnSum(call.matchings_history, a)

Antonia == 1

Daniel == 2

Fabio == 3

Lukas == 4

Everybody == {Antonia, Daniel, Fabio, Lukas}

\* the splits of the set S into pairs, each as a matching
PairSplits(S) ==
    {AsMatching(P) : P \in {Q \in Partitions(S) : \A B \in Q : Cardinality(B) = 2}}

\* lists of different splits into pairs, in any order
SplitLists == UNION {Orderings(T) : T \in SUBSET PairSplits(Everybody)}

InitSelect ==
    /\ NoRun
    /\ \E candidates \in SplitLists, vals \in SymmetricValues(Cardinality(Everybody)),
          penalty \in PenaltyFuncs :
          call = [op |-> "find_optimal_matching", at |-> "called",
                  candidates |-> candidates,
                  matchings_history |-> [index |-> Ascending(Everybody), values |-> vals],
                  penalty_func |-> penalty]

FindOptimalMatching ==
    /\ call.op = "find_optimal_matching"
    /\ call.at = "called"
    /\ call' = [call EXCEPT !.at = "returned"] @@
               [result |-> find_optimal_matching(call.candidates, call.matchings_history,
                                                 call.penalty_func, Unset, FALSE)]
    /\ UNCHANGED run

NextSelect == FindOptimalMatching

SpecSelect == InitSelect /\ [][NextSelect]_vars

\* the history of the scenario: exactly the pairs Antonia-Lukas and Daniel-Fabio
\* have met, once each
MetOnce(a, b) == {a, b} \in {{Antonia, Lukas}, {Daniel, Fabio}}

ScenarioHistory ==
    [index |-> Ascending(Everybody),
     values |-> [i \in 1..Cardinality(Everybody) |-> [j \in 1..Cardinality(Everybody) |->
                    IF MetOnce(Ascending(Everybody)[i], Ascending(Everybody)[j])
                    THEN 1 ELSE 0]]]

\* the scenario: every split into two pairs is a candidate
ScenarioReturned(penalty) ==
    /\ call.op = "find_optimal_matching"
    /\ call.at = "returned"
    /\ call.matchings_history = ScenarioHistory
    /\ call.penalty_func = penalty
    /\ Range(call.candidates) = PairSplits(Everybody)

\* the groups of a matching as sets of identities
GroupsOf(matching) == {Range(GroupIds(matching[g])) : g \in 1..Len(matching)}

\* the matching repeats a pair of the scenario's history
RepeatsAPair(matching) ==
    \E a, b \in Everybody : a # b /\ MetOnce(a, b) /\ SameGroup(matching, a, b)

\* C16 as stated: in the scenario with the default penalty the matching
\* selected is {Antonia, Lukas}, {Daniel, Fabio}.
ExpPenaltySelectsThePairsThatMet ==
    ScenarioReturned("np.exp") =>
        GroupsOf(call.result.optimal_matching) = {{Antonia, Lukas}, {Daniel, Fabio}}

\* C16, amended: in the scenario with the default penalty the matching selected
\* is the first candidate of the list that repeats no pair of the history, so
\* {Antonia, Daniel}, {Fabio, Lukas} or {Antonia, Fabio}, {Daniel, Lukas}, and
\* never {Antonia, Lukas}, {Daniel, Fabio}.
ExpPenaltySelectsFirstWithoutRepeat ==
    ScenarioReturned("np.exp") =>
        \E k \in 1..Len(call.candidates) :
            /\ call.result.optimal_matching = call.candidates[k]
            /\ ~RepeatsAPair(call.candidates[k])
            /\ \A j \in 1..(k - 1) : RepeatsAPair(call.candidates[j])

ExpPenaltyWitness ==
    /\ ScenarioReturned("np.exp")
    /\ RepeatsAPair(call.candidates[1])
    /\ GroupsOf(call.candidates[3]) = {{Antonia, Daniel}, {Fabio, Lukas}}
    /\ GroupsOf(call.result.optimal_matching) = {{Antonia, Fabio}, {Daniel, Lukas}}

\* C17 as stated: in the scenario with the penalty x -> -exp(x) the matching
\* selected is {Antonia, Daniel}, {Lukas, Fabio}.
NegativeExpSelectsPairsThatNeverMet ==
    ScenarioReturned("negative exp") =>
        GroupsOf(call.result.optimal_matching) = {{Antonia, Daniel}, {Lukas, Fabio}}

\* C17, amended: in the scenario with the penalty x -> -exp(x), which rewards
\* repeats, the matching selected is {Antonia, Lukas}, {Daniel, Fabio}, the
\* pairs that met before.
NegativeExpSelectsThePairsThatMet ==
    ScenarioReturned("negative exp") =>
        GroupsOf(call.result.optimal_matching) = {{Antonia, Lukas}, {Daniel, Fabio}}

NegativeExpWitness ==
    /\ ScenarioReturned("negative exp")
    /\ call.result.optimal_matching = call.candidates[3]
    /\ RepeatsAPair(call.result.optimal_matching)


\* the identities of the rows with joins = 1 of the names table of the run
JoiningIds == Range(NamesId(Joining(args.names)))

\* C18: with n_groups = 1 and no max_size, a run of create_matching that
\* returns, returns a matching of exactly one group with every participant in
\* it, whatever min_size is; and the run returns for every min_size up to the
\* number of participants (it raises only for a larger min_size, or when no
\* candidate is drawn).
OneGroupTakesEverybody ==
    (args # Unset /\ args.n_groups = 1 /\ args.max_size = None) =>
        /\ pc = "returned" =>
              /\ Len(optimal_matching) = 1
              /\ Range(GroupIds(optimal_matching[1])) = JoiningIds
              /\ Len(optimal_matching[1]) = Cardinality(JoiningIds)
        /\ pc = "raised" =>
              \/ args.min_size > Cardinality(JoiningIds)
              \/ args.n_draws = 0

OneGroupWitness ==
    /\ pc = "returned"
    /\ args.n_groups = 1
    /\ args.max_size = None
    /\ args.min_size = 2
    /\ Cardinality(JoiningIds) = 4
    /\ Len(optimal_matching) = 1

\* C19: whenever n_groups is given and create_matching returns a matching, the
\* matching has exactly n_groups groups.
NGroupsIsNumberOfGroups ==
    (pc = "returned" /\ args.n_groups # None) =>
        Len(optimal_matching) = args.n_groups

\* C20: whenever max_size is given and create_matching returns a matching, no
\* group of the matching has more than max_size members.
NoGroupAboveMaxSize ==
    (pc = "returned" /\ args.max_size # None) =>
        \A g \in 1..Len(optimal_matching) : Len(optimal_matching[g]) <= args.max_size

\* C21: every invalid input to create_matching is rejected before the random
\* sampling begins: no step of draw_candidate_matchings or find_optimal_matching
\* ends in an exception.
NoErrorOnceSamplingBegins ==
    [][(pc \in {"draw", "score", "prepare results"}) => ~(pc' = "raised")]_vars


\* ------------------------------------------------------------------------
\* Rounds: create_matching called again and again, each call reading the
\* history file the calls before it left in the output directory
\* ------------------------------------------------------------------------
MaxRounds == 2

\* the names table that lists ids, everybody joining but the absent
RoundTable(ids, absent) ==
    Listing(ids, [i \in 1..Len(ids) |-> PersonName(ids[i])],
            [i \in 1..Len(ids) |-> IF ids[i] \in absent THEN 0 ELSE 1])

\* the names tables of the first round
FirstTables == {RoundTable([i \in 1..n |-> i], {}) : n \in 2..MaxId}

\* the row of a person listed for the first time
NewRow(i) == RoundTable(<<i>>, {})[1]

\* the names table of the next round: as it was, with a new person at the end
\* or at the start of the list, with the first person not joining, or with
\* the first person taken off the list
NextTables(names) ==
    {names, Tail(names), [names EXCEPT ![1].joins = 0]}
    \cup {Append(names, NewRow(i)) : i \in (1..MaxId) \ Range(NamesId(names))}
    \cup {<<NewRow(i)>> \o names : i \in (1..MaxId) \ Range(NamesId(names))}

\* the runs of a round: groups of two, with and without a maximal size, with
\* and without leave to overwrite the files of the round before
RoundRuns(tables, file) ==
    {[names |-> names, matchings_history_file |-> file,
      min_size |-> 2, n_groups |-> None, max_size |-> max_size,
      penalty_func |-> "np.exp", mixing_multiplier |-> [float |-> 3],
      assortative_matching |-> FALSE, n_draws |-> 1, seed |-> 0,
      output_path |-> "out", return_results |-> TRUE, overwrite |-> overwrite]
       : names \in tables, max_size \in {None, 2}, overwrite \in BOOLEAN}

InitRounds ==
    /\ call = [op |-> "rounds", round |-> 1, sorts |-> {}]
    /\ args \in RoundRuns(FirstTables, NoFile)
    /\ pc = "validate"
    /\ all_participants = Unset
    /\ mixing_multiplier = Unset
    /\ matchings_history = Unset
    /\ updated_min_size = None
    /\ n_to_exclude = None
    /\ participants = Unset
    /\ list_of_matchings = Unset
    /\ criterion_values = <<>>
    /\ optimal_matching = Unset
    /\ updated_history = Unset
    /\ raised = "nothing"
    /\ output_files = NoFiles
    /\ results = Unset

\* the next round: create_matching is called with the names table of the day
\* and the path of the history file in the output directory
NextRound ==
    /\ call.op = "rounds"
    /\ call.round < MaxRounds
    /\ pc = "returned"
    /\ is_file(output_files, HistoryFileName)
    /\ call' = [call EXCEPT !.round = @ + 1]
    /\ args' \in RoundRuns(NextTables(args.names),
                           HistoryFile(output_files[HistoryFileName]))
    /\ pc' = "validate"
    /\ all_participants' = Unset
    /\ mixing_multiplier' = Unset
    /\ matchings_history' = Unset
    /\ updated_min_size' = None
    /\ n_to_exclude' = None
    /\ participants' = Unset
    /\ list_of_matchings' = Unset
    /\ criterion_values' = <<>>
    /\ optimal_matching' = Unset
    /\ updated_history' = Unset
    /\ raised' = "nothing"
    /\ results' = Unset
    /\ UNCHANGED output_files

NextRounds ==
    \/ Next
    \/ NextRound

SpecRounds == InitRounds /\ [][NextRounds]_vars

\* the history the round found on file
HistoryRead == read_csv(args.matchings_history_file.lines)

\* the frame keeps every identity of the history read, with no count below
\* the count read
GrownFromRead(df) ==
    /\ Range(HistoryRead.index) \subseteq Range(df.index)
    /\ \A a, b \in Range(HistoryRead.index) : Loc(df, a, b) >= Loc(HistoryRead, a, b)

\* the identities of the names table that the history read does not have
FirstSeen == Range(NamesId(args.names)) \ Range(HistoryRead.index)

\* C22: in every round the history is symmetric in every state; the frame the
\* round works on and the frame it writes keep every identity of the history
\* read from file and no count of it is lower than it was; and an identity
\* the round sees for the first time has a row and a column of zeros while
\* the candidates are scored.
HistoryGrowsOverRounds ==
    /\ matchings_history # Unset => IsSymmetric(matchings_history)
    /\ updated_history # Unset => IsSymmetric(updated_history)
    /\ is_file(output_files, HistoryFileName) =>
           IsSymmetric(read_csv(output_files[HistoryFileName]))
    /\ args.matchings_history_file # NoFile =>
           /\ matchings_history # Unset => GrownFromRead(matchings_history)
           /\ updated_history # Unset => GrownFromRead(updated_history)
           /\ pc = "score" =>
                  \A a \in FirstSeen, b \in Range(matchings_history.index) :
                      Loc(matchings_history, a, b) = 0 /\ Loc(matchings_history, b, a) = 0


\* ------------------------------------------------------------------------
\* _create_chunks and _create_candidate_matching on their own
\* ------------------------------------------------------------------------
MaxIds == 10

\* np.arange(n)
arange(n) == [i \in 1..n |-> i - 1]

InitChunks ==
    /\ NoRun
    /\ \E n \in 0..MaxIds, min_size \in 0..(MaxSize + 1) :
          \/ call = [op |-> "_create_chunks", at |-> "called",
                     ids |-> arange(n), min_size |-> min_size]
          \/ \E seed \in {0, MaxSeed} :
                call = [op |-> "_create_candidate_matching", at |-> "called",
                        participants |-> [k \in 1..n |-> Row(k)],
                        min_size |-> min_size, seed |-> seed]

CreateChunks ==
    /\ call.op = "_create_chunks"
    /\ call.at = "called"
    /\ call' = [call EXCEPT !.at = "returned"] @@
               [result |-> create_chunks(call.ids, call.min_size)]
    /\ UNCHANGED run

CreateCandidateMatching ==
    /\ call.op = "_create_candidate_matching"
    /\ call.at = "called"
    /\ call' = [call EXCEPT !.at = "returned"] @@
               [result |-> create_candidate_matching(call.participants, call.min_size,
                                                     default_rng(call.seed))]
    /\ UNCHANGED run

NextChunks ==
    \/ CreateChunks
    \/ CreateCandidateMatching

SpecChunks == InitChunks /\ [][NextChunks]_vars

\* a candidate matching was produced
CandidateReturned ==
    /\ call.op = "_create_candidate_matching"
    /\ call.at = "returned"
    /\ ~IsRaised(call.result)

\* the groups of the candidate with more than min_size members
LargerGroups ==
    {g \in 1..Len(call.result.matching) : Len(call.result.matching[g]) > call.min_size}

\* C23 as stated: in every candidate matching no group has fewer than min_size
\* members and at most one group has more than min_size members.
AtMostOneGroupAboveMinSize ==
    CandidateReturned =>
        /\ \A g \in 1..Len(call.result.matching) :
              Len(call.result.matching[g]) >= call.min_size
        /\ Cardinality(LargerGroups) <= 1

\* C23, amended: in every candidate matching no group has fewer than min_size
\* members, and the groups with more than min_size members are at most
\* n mod min_size (they share the n mod min_size members left over).
GroupsAboveMinSizeShareTheRemainder ==
    CandidateReturned =>
        /\ \A g \in 1..Len(call.result.matching) :
              Len(call.result.matching[g]) >= call.min_size
        /\ \E r \in 0..Len(call.participants) :
              /\ IsRemainderOf(r, Len(call.participants), call.min_size)
              /\ Cardinality(LargerGroups) <= r
              /\ SumSeq(GroupSizes(call.result.matching))
                     = Len(call.result.matching) * call.min_size + r

GroupsAboveMinSizeWitness ==
    /\ CandidateReturned
    /\ Len(call.participants) = 8
    /\ call.min_size = 3
    /\ GroupSizes(call.result.matching) = <<4, 4>>

ChunksReturned == call.op = "_create_chunks" /\ call.at = "returned"

\* C26: for n >= min_size >= 1 ids _create_chunks returns k = floor(n / min_size)
\* chunks that concatenate to the ids in their order, the first n mod k of
\* them with ceil(n / k) ids and the others with floor(n / k); for
\* n < min_size the call raises.
ChunksAreNearEqualAndContiguous ==
    (ChunksReturned /\ call.min_size >= 1) =>
        IF Len(call.ids) >= call.min_size
        THEN /\ ~IsRaised(call.result)
             /\ IsFloorOf(Len(call.result.chunks), Len(call.ids), call.min_size)
             /\ Flatten(call.result.chunks) = call.ids
             /\ \E q, r \in 0..Len(call.ids) :
                   /\ IsFloorOf(q, Len(call.ids), Len(call.result.chunks))
                   /\ IsRemainderOf(r, Len(call.ids), Len(call.result.chunks))
                   /\ \A c \in 1..Len(call.result.chunks) :
                         Len(call.result.chunks[c])
                             = IF c <= r THEN q + 1 ELSE q
        ELSE IsRaised(call.result)

ChunksOfTenWitness ==
    /\ ChunksReturned
    /\ call.ids = arange(10)
    /\ call.min_size = 3
    /\ call.result.chunks = <<<<0, 1, 2, 3>>, <<4, 5, 6>>, <<7, 8, 9>>>>


\* the exceptions of the input validation, create_matching.py 65-105
ValidationErrors ==
    {"ValueError: No output path is given and return_results is set to False",
     "ValueError: penalty_func must return a numpy array",
     "ValueError: min_size must be smaller than max_size",
     "ValueError: id column in names table is not unique",
     "ValueError: There are less participants than 'min_size'"}

\* C24: a run whose participants (the rows with joins = 1) do not have unique
\* identities ends in a ValueError of the validation: no history is read,
\* extended or updated, no candidate is drawn, nothing is written or returned.
DuplicateParticipantsAreRefused ==
    (\E i, j \in 1..Len(Joining(args.names)) :
        i < j /\ Joining(args.names)[i].id = Joining(args.names)[j].id) =>
        /\ pc \in {"validate", "raised"}
        /\ pc = "raised" => raised \in ValidationErrors
        /\ matchings_history = Unset
        /\ updated_history = Unset
        /\ output_files = NoFiles
        /\ results = Unset

DuplicateParticipantsWitness ==
    /\ pc = "raised"
    /\ raised = "ValueError: id column in names table is not unique"
    /\ NamesId(Joining(args.names)) = <<1, 2, 1>>
    /\ args.matchings_history_file # NoFile


\* the minimum group size in force is q: the min_size of the caller, or with
\* n_groups the size derived from it
MinSizeInForce(q) ==
    IF args.n_groups = None THEN q = args.min_size
    ELSE args.n_groups >= 1 /\ IsFloorOf(q, Cardinality(JoiningIds), args.n_groups)

\* C25 as stated: a run with a max_size below the minimum group size in force
\* (the caller's min_size, or the one derived from n_groups) ends in an
\* exception and returns no matching and no updated history.
MaxSizeBelowSizeInForceIsRefused ==
    (args.max_size # None /\ \E q \in 0..MaxJoining : MinSizeInForce(q) /\ args.max_size < q) =>
        /\ pc \notin {"prepare results", "returned"}
        /\ updated_history = Unset
        /\ results = Unset

\* C25, amended: a run with a max_size below the min_size of the caller ends
\* in a ValueError of the validation, before the names are read, and returns
\* no matching and no updated history.
MaxSizeBelowMinSizeIsRefused ==
    (args.max_size # None /\ args.max_size < args.min_size) =>
        /\ pc \in {"validate", "raised"}
        /\ pc = "raised" =>
              raised \in {"ValueError: No output path is given and return_results is set to False",
                          "ValueError: penalty_func must return a numpy array",
                          "ValueError: min_size must be smaller than max_size"}
        /\ updated_history = Unset
        /\ results = Unset

MaxSizeBelowMinSizeWitness ==
    /\ pc = "raised"
    /\ raised = "ValueError: min_size must be smaller than max_size"
    /\ args.min_size = 3
    /\ args.max_size = 2
    /\ args.n_groups = 1
    /\ Cardinality(JoiningIds) = 4


\* what draw_candidate_matchings returns for m draws on the participants,
\* the minimum size and the seed of the run
DrawnWith(m) ==
    draw_candidate_matchings(participants, updated_min_size, m,
                             create_rng(args.seed, OsEntropy))

\* the score of a matching against the extended input history
ScoreAgainstInput(matching) ==
    ScoreOf(matching, ExtendedInput, args.penalty_func,
            IF args.assortative_matching THEN mixing_multiplier.dict ELSE mixing_multiplier,
            args.assortative_matching).score

\* the score of the matching find_optimal_matching selects among the first m
\* candidates
SelectedScoreWith(m) ==
    ScoreAgainstInput(
        find_optimal_matching(
            DrawnWith(m).candidates, ExtendedInput, args.penalty_func,
            IF args.assortative_matching THEN mixing_multiplier.dict ELSE mixing_multiplier,
            args.assortative_matching).optimal_matching)

\* C27: the candidates the run drew are, for every m up to its n_draws, the
\* candidates of a draw with n_draws = m followed by others; and the score of
\* the matching the run selected is not above the score of the matching
\* selected with m draws.
FewerDrawsGiveAPrefix ==
    /\ pc \in {"score", "prepare results", "returned"} =>
           \A m \in 0..args.n_draws :
               /\ ~IsRaised(DrawnWith(m))
               /\ DrawnWith(m).candidates = SubSeq(list_of_matchings, 1, m)
    /\ pc = "returned" =>
           \A m \in 1..args.n_draws :
               ~RatLess(SelectedScoreWith(m), ScoreAgainstInput(optimal_matching))

FewerDrawsWitness ==
    /\ pc = "returned"
    /\ args.n_draws = MaxDraws
    /\ list_of_matchings[1] # list_of_matchings[MaxDraws]
    /\ RatLess(ScoreAgainstInput(optimal_matching), SelectedScoreWith(1))


\* the identities of the members of the groups of a matching
MembersOf(matching) == UNION {Range(GroupIds(matching[g])) : g \in 1..Len(matching)}

\* C28: in the updated history a run returns, the row and the column of every
\* identity outside the winning matching (not joining, or excluded for
\* capacity) are those of the extended input history.
OutsidersKeepRowAndColumn ==
    pc = "returned" =>
        /\ updated_history.index = ExtendedInput.index
        /\ \A a \in Range(ExtendedInput.index) \ MembersOf(optimal_matching),
              b \in Range(ExtendedInput.index) :
              /\ Loc(updated_history, a, b) = Loc(ExtendedInput, a, b)
              /\ Loc(updated_history, b, a) = Loc(ExtendedInput, b, a)

\* a participant with an earlier meeting is excluded for capacity while the
\* two others form the group
OutsidersWitness ==
    /\ pc = "returned"
    /\ n_to_exclude = 1
    /\ Len(optimal_matching[1]) = 2
    /\ \E a \in JoiningIds \ MembersOf(optimal_matching) :
          \E b \in MembersOf(optimal_matching) :
              Loc(ExtendedInput, a, b) = 1 /\ Loc(updated_history, a, b) = 1


\* C29: when a run returns, the groups of the matching and the set of excluded
\* participants partition the participants with joins = 1: everyone is a
\* member of exactly one group or is among the excluded, never both, and the
\* excluded are n_to_exclude.
GroupsAndExcludedPartitionTheJoining ==
    pc = "returned" =>
        /\ MembersOf(optimal_matching) \subseteq JoiningIds
        /\ IsUnique(Flatten([g \in 1..Len(optimal_matching) |-> GroupIds(optimal_matching[g])]))
        /\ \A i \in 1..Len(all_participants) :
              (all_participants[i].id \in MembersOf(optimal_matching))
                  # (all_participants[i].name \in excluded_participants)
        /\ Cardinality(excluded_participants) = n_to_exclude


\* participants are excluded for capacity: max_size equals min_size and no
\* n_groups is given, or n_groups groups of max_size cannot take everybody
ExcludedForCapacity ==
    /\ args.max_size # None
    /\ \/ args.n_groups = None /\ args.max_size = args.min_size
       \/ args.n_groups # None /\ Cardinality(JoiningIds) > args.n_groups * args.max_size

\* C30: whenever participants are excluded for capacity, the number of
\* participants left is a multiple of max_size and every group of the matching
\* returned has exactly max_size members.
ExclusionLeavesGroupsOfMaxSize ==
    ExcludedForCapacity =>
        /\ pc \in {"draw", "score", "prepare results", "returned"} =>
               \E k \in 0..Len(participants) : Len(participants) = k * args.max_size
        /\ pc = "returned" =>
               \A g \in 1..Len(optimal_matching) : Len(optimal_matching[g]) = args.max_size

ExclusionWithNGroupsWitness ==
    /\ pc = "returned"
    /\ args.n_groups = 2
    /\ args.max_size = 2
    /\ args.min_size = 1
    /\ Cardinality(JoiningIds) = 5
    /\ n_to_exclude = 1
    /\ Len(optimal_matching) = 2

====
